---- MODULE Spec2Model ----
\* Stack cache manager of klabctl (internal/cli/pull.go): the
\* EnsureStackAvailable state machine over the on-disk cache directory of one
\* requested ref, with git and the filesystem as the environment.
EXTENDS Integers, Sequences, FiniteSets, TLC

VARIABLES
    disk,          \* the cache directory .klabctl/cache/stack/<ref>
    klabctlDir,    \* the hidden .klabctl directory: "absent", "dir", "full" (with .gitignore)
    gitAvailable,  \* git is on PATH
    ref,           \* the ref whose cache directory is modelled (the calls' ref argument)
    pc,            \* position inside EnsureStackAvailable
    source,        \* argument of the running call
    force,         \* argument of the running (possibly recursive) call
    depth,         \* recursion depth of the running call
    switched,      \* the running call is past updateGitRepo (lines 311-338)
    ops,           \* git and filesystem operations of the top-level call, in order
    stderr,        \* messages written to os.Stderr by the top-level call, in order
    stdout,        \* something was written to os.Stdout by the top-level call
    result,        \* "none" while running, then "nil" or "err"
    pre,           \* facts about the disk when the top-level call started
    prevOK         \* source of the directly preceding call if it returned nil with force = false

vars == <<disk, klabctlDir, gitAvailable, ref, pc, source, force, depth,
          switched, ops, stderr, stdout, result, pre, prevOK>>

\* The generate command (internal/cli/generate.go) over the output tree
\* clusters/<name>/apps.
VARIABLES
    gpc,           \* position inside the generate command
    site,          \* the site file: loadable, stack fields set, infra provider, catalog
    stack,         \* the stack cache's apps/<component>: base directory and templates
    fs,            \* content of every file of the output tree
    dirs,          \* directories of the output tree that exist
    todo,          \* catalog entries the range loop has not visited yet
    cur,           \* the component of the current iteration
    tq,            \* templates of cur still to render, in FindAppTemplates' order
    written,       \* files and directories this run created, changed or deleted
    renders,       \* template executions of this run, in order
    gresult,       \* "none" while running, then "nil" or "err"
    runs,          \* finished runs of the command
    edits,         \* edits made by hand between runs
    handEdited,    \* the files edited by hand since the last run returned
    snap           \* fs when the previous run returned nil, else NoSnap

genVars == <<gpc, site, stack, fs, dirs, todo, cur, tq, written, renders, gresult,
             runs, edits, handEdited, snap>>

NoSnap == <<>>

GenOff ==
    /\ gpc = "off"
    /\ site = <<>>
    /\ stack = <<>>
    /\ fs = <<>>
    /\ dirs = {}
    /\ todo = {}
    /\ cur = ""
    /\ tq = <<>>
    /\ written = {}
    /\ renders = <<>>
    /\ gresult = "none"
    /\ runs = 0
    /\ edits = 0
    /\ handEdited = {}
    /\ snap = NoSnap

\* copyDir (internal/cli/generate.go) over a source and a destination tree.
VARIABLES
    cpc,           \* position inside copyDir
    srcTree,       \* the tree at src: kind, permission bits and content of each path
    dstTree,       \* the tree at dst
    umask,         \* the process's file mode creation mask
    cq,            \* entries of src still to copy, in the order of the recursion
    cresult        \* "none" while running, then "nil" or "err"

copyVars == <<cpc, srcTree, dstTree, umask, cq, cresult>>

CopyOff ==
    /\ cpc = "off"
    /\ srcTree = <<>>
    /\ dstTree = <<>>
    /\ umask = {}
    /\ cq = <<>>
    /\ cresult = "none"

\* validateComponent (internal/cli/vendor.go) over one schema and one values
\* map.
VARIABLES
    vpc,           \* position inside validateComponent
    schema,        \* schema.Values: the declared fields
    values,        \* component.Values
    fieldsLeft,    \* fields the range loop has not visited yet
    errors,        \* the errors collected so far, in order
    removed        \* the required field removed from the map, or NoField

valVars == <<vpc, schema, values, fieldsLeft, errors, removed>>

NoField == <<>>

ValOff ==
    /\ vpc = "off"
    /\ schema = <<>>
    /\ values = <<>>
    /\ fieldsLeft = {}
    /\ errors = <<>>
    /\ removed = NoField

\* validateSiteAgainstSchemas (internal/cli/vendor.go) over one site and the
\* schemas found in the embedded templates.
VARIABLES
    spc,           \* position inside validateSiteAgainstSchemas
    scatalog,      \* site.Spec.Apps.Catalog: enabled flag and values of each component
    schemas,       \* the schemas found, by componentName
    sleft,         \* catalog entries the range loop has not visited yet
    allErrors,     \* the errors collected so far, in order
    validated,     \* the components handed to validateComponent
    sresult        \* "none" while running, then "nil" or "err"

siteVars == <<spc, scatalog, schemas, sleft, allErrors, validated, sresult>>

SiteOff ==
    /\ spc = "off"
    /\ scatalog = <<>>
    /\ schemas = <<>>
    /\ sleft = {}
    /\ allErrors = <<>>
    /\ validated = {}
    /\ sresult = "none"

\* isValidIPv4 (vendor.go): the string passed, as its characters, the
\* position of the call and the result
VARIABLES ip, ipc, ipOK

ipVars == <<ip, ipc, ipOK>>

IpOff ==
    /\ ip = <<>>
    /\ ipc = "off"
    /\ ipOK = FALSE

\* getNestedValue (vendor.go): the values map, the map as it was at the
\* call, the path as its characters, the position of the call and the result
VARIABLES nvMap, nvOrig, nvPath, nvc, nvRes

nvVars == <<nvMap, nvOrig, nvPath, nvc, nvRes>>

NvOff ==
    /\ nvMap = {}
    /\ nvOrig = {}
    /\ nvPath = <<>>
    /\ nvc = "off"
    /\ nvRes = <<>>

\* 'klabctl get defaults' (get.go getDefaults)
VARIABLES
    getpc,         \* position inside getDefaults
    getDisk0,      \* the cache directory as it was when getDefaults was called
    printed,       \* the generated YAML was printed to standard output
    getWrote,      \* the files getDefaults wrote itself
    getResult      \* "none" while running, then "nil" or "err"

getVars == <<getpc, getDisk0, printed, getWrote, getResult>>

GetOff ==
    /\ getpc = "off"
    /\ getDisk0 = <<>>
    /\ printed = FALSE
    /\ getWrote = {}
    /\ getResult = "none"

\* EnsureStackAvailable (pull.go) over the directories below .klabctl, for
\* refs that are paths
VARIABLES
    cacheTree,     \* what lies at each path below .klabctl
    callRef,       \* the ref of the running call, as its path segments
    callForce,     \* the force flag of the running call
    cachePc,       \* position inside the call
    othersChanged        \* the other refs whose cache directory the call has changed

cacheVars == <<cacheTree, callRef, callForce, cachePc, othersChanged>>

CacheOff ==
    /\ cacheTree = <<>>
    /\ callRef = <<>>
    /\ callForce = FALSE
    /\ cachePc = "off"
    /\ othersChanged = {}

\* addAdditionalValuesFile (vendor code) on one helm-chart.yaml
VARIABLES
    chart,         \* the document in helm-chart.yaml
    valuesPath,    \* customValuesPath
    afterFirst,    \* the document as the first call left it
    addResults     \* the results of the calls so far, "nil" or "err"

helmVars == <<chart, valuesPath, afterFirst, addResults>>

HelmOff ==
    /\ chart = <<>>
    /\ valuesPath = ""
    /\ afterFirst = <<>>
    /\ addResults = <<>>

\* 'klabctl init <cluster-name>' (init.go initProject) over the files of
\* one project directory
VARIABLES
    initPc,        \* position inside initProject
    siteYaml,      \* clusters/<cluster-name>/site.yaml
    rootSiteYaml,  \* site.yaml of the working directory (renderSiteYaml)
    gitignore,     \* .gitignore of the working directory
    configYaml,    \* .klabctl/config.yaml
    stackEnsured,  \* the running init has called EnsureStackAvailable
    initResult,    \* "none" while running, then "nil" or "err"
    before         \* the four files as they were when init was called

initVars == <<initPc, siteYaml, rootSiteYaml, gitignore, configYaml, stackEnsured,
              initResult, before>>

InitOff ==
    /\ initPc = "off"
    /\ siteYaml = "absent"
    /\ rootSiteYaml = "absent"
    /\ gitignore = "absent"
    /\ configYaml = "absent"
    /\ stackEnsured = FALSE
    /\ initResult = "none"
    /\ before = <<>>

allVars == <<vars, genVars, copyVars, valVars, siteVars, ipVars, nvVars, getVars, cacheVars, helmVars, initVars>>

----------------------------------------------------------------------------
\* The remote repositories and their refs.

\* cap of the recursion depth the model follows
MaxDepth == 3

Sources == {"A", "B"}

Refs == {"main", "v1", "1a2b3c4"}

RefKind(r) == IF r = "main" THEN "branch" ELSE IF r = "v1" THEN "tag" ELSE "commit"

\* short commit hash a ref resolves to
RefCommit(r) == IF r = "main" THEN "9f8e7d6" ELSE "1a2b3c4"

\* a required path of the working tree is tracked and present, tracked but
\* deleted from the working tree, present but untracked, or absent
PathStates == {"tracked", "deleted", "untracked", "absent"}

PathExists(p) == p \in {"tracked", "untracked"}

Missing ==
    [exists |-> FALSE, isGit |-> FALSE, broken |-> FALSE, abbrev |-> "", sha |-> "",
     origin |-> "", apps |-> "absent", templates |-> "absent",
     modified |-> FALSE, untracked |-> FALSE, nested |-> FALSE]

\* a directory without .git
NotARepo == [Missing EXCEPT !.exists = TRUE]

\* a directory whose .git exists but cannot be read by git
BrokenRepo == [Missing EXCEPT !.exists = TRUE, !.isGit = TRUE, !.broken = TRUE]

\* result of git clone --depth 1 --branch r s: HEAD is on the branch, or
\* detached at the tag's commit; inTree says which required paths the commit has
Cloned(s, r, inTree) ==
    [exists |-> TRUE, isGit |-> TRUE, broken |-> FALSE,
     abbrev |-> IF RefKind(r) = "branch" THEN r ELSE "HEAD",
     sha |-> RefCommit(r), origin |-> s,
     apps |-> IF inTree.apps THEN "tracked" ELSE "absent",
     templates |-> IF inTree.templates THEN "tracked" ELSE "absent",
     modified |-> FALSE, untracked |-> FALSE, nested |-> FALSE]

Trees == [apps : BOOLEAN, templates : BOOLEAN]

Repos ==
    [exists : {TRUE}, isGit : {TRUE}, broken : {FALSE},
     abbrev : {"main", "HEAD"}, sha : {"9f8e7d6", "1a2b3c4"}, origin : Sources,
     apps : PathStates, templates : PathStates,
     modified : BOOLEAN, untracked : BOOLEAN, nested : BOOLEAN]

DiskStates ==
    {Missing, NotARepo, BrokenRepo}
    \cup {d \in Repos : d.sha = (IF d.abbrev = "HEAD" THEN "1a2b3c4" ELSE "9f8e7d6")}

----------------------------------------------------------------------------
\* pull.go helpers

isGitRepo(d) == d.exists /\ d.isGit

\* a git command run inside the cache directory can read the repository
GitWorks(d) == gitAvailable /\ isGitRepo(d) /\ ~d.broken

\* git rev-parse --abbrev-ref HEAD, then --short HEAD when detached
CachedVersion(d) == IF d.abbrev = "HEAD" THEN d.sha ELSE d.abbrev

\* git status --porcelain prints something
StatusNotEmpty(d) ==
    \/ d.modified \/ d.untracked \/ d.nested
    \/ d.apps \in {"deleted", "untracked"}
    \/ d.templates \in {"deleted", "untracked"}

\* stack exists whenever one of its two subdirectories does, so the check of
\* "stack" itself never decides
RequiredPathsExist(d) == PathExists(d.apps) /\ PathExists(d.templates)

isValidCache(d) ==
    /\ isGitRepo(d)
    /\ GitWorks(d)
    /\ ~StatusNotEmpty(d)
    /\ RequiredPathsExist(d)

\* git reset --hard HEAD
ResetHard(d) ==
    [d EXCEPT !.modified = FALSE,
              !.apps = IF @ = "deleted" THEN "tracked" ELSE @,
              !.templates = IF @ = "deleted" THEN "tracked" ELSE @]

\* git clean -fd: removes untracked files and directories, but skips an
\* untracked directory that is itself a git repository (that needs -ff);
\* d.nested stands for such an entry, which git reset leaves alone too
CleanFd(d) ==
    [d EXCEPT !.untracked = FALSE,
              !.apps = IF @ = "untracked" THEN "absent" ELSE @,
              !.templates = IF @ = "untracked" THEN "absent" ELSE @]

\* a required path after git checkout of a commit that has it (inTree) or not;
\* local changes are carried over
CheckoutPath(p, inTree) ==
    IF inTree THEN (IF p = "deleted" THEN "deleted" ELSE "tracked")
    ELSE (IF p = "untracked" THEN "untracked" ELSE "absent")

\* git checkout refuses to overwrite an untracked path
CheckoutPossible(d, inTree) ==
    /\ ~(d.apps = "untracked" /\ inTree.apps)
    /\ ~(d.templates = "untracked" /\ inTree.templates)

Checkout(d, r, inTree) ==
    [d EXCEPT !.abbrev = IF RefKind(r) = "branch" THEN r ELSE "HEAD",
              !.sha = RefCommit(r),
              !.apps = CheckoutPath(@, inTree.apps),
              !.templates = CheckoutPath(@, inTree.templates)]

\* os.RemoveAll that fails leaves the directory in place, untouched or with
\* part of its content (here: .git) already gone
RemoveAllFailed(d) == {d, NotARepo}

Op(name, ok) == [op |-> name, ok |-> ok]

Mutating == {"removeall", "mkdirall", "clone", "fetch", "checkout", "pull", "reset", "clean"}

Facts(d, f) ==
    [force |-> f,
     exists |-> d.exists,
     isGit |-> isGitRepo(d),
     atRef |-> GitWorks(d) /\ CachedVersion(d) = ref,
     dirty |-> GitWorks(d) /\ StatusNotEmpty(d),
     valid |-> isValidCache(d),
     origin |-> d.origin]

NoFacts == [force |-> FALSE, exists |-> FALSE, isGit |-> FALSE, atRef |-> FALSE, dirty |-> FALSE,
            valid |-> FALSE, origin |-> ""]

----------------------------------------------------------------------------
Init ==
    /\ disk \in DiskStates
    /\ klabctlDir \in {"absent", "full"}
    /\ (disk.exists => klabctlDir = "full")
    /\ gitAvailable \in BOOLEAN
    /\ ref \in Refs
    /\ pc = "idle"
    /\ source = ""
    /\ force = FALSE
    /\ depth = 0
    /\ switched = FALSE
    /\ ops = <<>>
    /\ stderr = <<>>
    /\ stdout = FALSE
    /\ result = "none"
    /\ pre = NoFacts
    /\ prevOK = ""

\* what a call never changes: PATH, the ref, and everything outside .klabctl
Env == <<gitAvailable, ref, genVars, copyVars, valVars, siteVars, ipVars, nvVars, getVars, cacheVars, helmVars, initVars>>

\* return from EnsureStackAvailable
Return(r) ==
    /\ pc' = "done"
    /\ result' = r

\* EnsureStackAvailable(source, ref, force) is called (line 240)
EnsureStackAvailable(s, f) ==
    /\ pc = "idle"
    /\ pc' = "createHidden"
    /\ source' = s
    /\ force' = f
    /\ depth' = 0
    /\ switched' = FALSE
    /\ ops' = <<>>
    /\ stderr' = <<>>
    /\ stdout' = FALSE
    /\ result' = "none"
    /\ pre' = Facts(disk, f)
    /\ UNCHANGED <<disk, klabctlDir, Env, prevOK>>

\* createHiddenKlabctlDir (lines 45-69), called at line 242
createHiddenKlabctlDir ==
    /\ pc = "createHidden"
    /\ \E mk \in BOOLEAN, wr \in BOOLEAN :
          IF klabctlDir = "absent" /\ ~mk
          THEN /\ Return("err")
               /\ UNCHANGED klabctlDir
          ELSE IF klabctlDir = "full"
          THEN /\ pc' = "force"
               /\ UNCHANGED <<klabctlDir, result>>
          ELSE IF wr
          THEN /\ klabctlDir' = "full"
               /\ pc' = "force"
               /\ UNCHANGED result
          ELSE /\ klabctlDir' = "dir"
               /\ Return("err")
    /\ UNCHANGED <<disk, Env, source, force, depth, switched, ops, stderr, stdout, pre, prevOK>>

\* the force flag (lines 248-255): a failing removal is only a warning
ForceRemove ==
    /\ pc = "force"
    /\ pc' = "stat"
    /\ IF force
       THEN \E ok \in {TRUE} \cup {b \in {FALSE} : disk.exists} :
              /\ ops' = Append(ops, Op("removeall", ok))
              /\ IF ok
                 THEN /\ disk' = Missing
                      /\ stderr' = Append(stderr, "Force re-pulling stack...")
                 ELSE /\ disk' \in RemoveAllFailed(disk)
                      /\ stderr' = stderr \o <<"Force re-pulling stack...",
                                               "Warning: failed to remove cache">>
       ELSE UNCHANGED <<disk, ops, stderr>>
    /\ UNCHANGED <<klabctlDir, Env, source, force, depth, switched, stdout, result, pre, prevOK>>

\* os.Stat of the cache directory and isGitRepo (lines 257-276)
StatCache ==
    /\ pc = "stat"
    /\ IF ~disk.exists
       THEN /\ pc' = "pullStack"
            /\ stderr' = Append(stderr, "Pulling stack")
       ELSE IF ~isGitRepo(disk)
       THEN /\ pc' = "removeAll"
            /\ stderr' = Append(stderr, "Cache is not a git repository, re-pulling...")
       ELSE /\ pc' = "getCachedVersion"
            /\ UNCHANGED stderr
    /\ UNCHANGED <<disk, klabctlDir, Env, source, force, depth, switched, ops, stdout,
                   result, pre, prevOK>>

\* pullStack up to the clone (lines 208-222): exec.LookPath, os.RemoveAll of
\* the destination, os.MkdirAll of its parent
pullStack ==
    /\ pc = "pullStack"
    /\ IF ~gitAvailable
       THEN /\ Return("err")
            /\ UNCHANGED <<disk, ops>>
       ELSE \E rm \in {TRUE} \cup {b \in {FALSE} : disk.exists}, mk \in BOOLEAN :
              IF ~rm
              THEN /\ ops' = Append(ops, Op("removeall", FALSE))
                   /\ disk' \in RemoveAllFailed(disk)
                   /\ Return("err")
              ELSE /\ ops' = ops \o <<Op("removeall", TRUE), Op("mkdirall", mk)>>
                   /\ disk' = Missing
                   /\ IF mk
                      THEN pc' = "clone" /\ UNCHANGED result
                      ELSE Return("err")
    /\ UNCHANGED <<klabctlDir, Env, source, force, depth, switched, stderr, stdout, pre, prevOK>>

\* git clone --depth 1 --branch ref source dir (lines 224-236), with the
\* child's stdout connected to os.Stdout; --branch takes a branch or a tag,
\* never a commit hash
Clone ==
    /\ pc = "clone"
    /\ \E ok \in {FALSE} \cup {b \in {TRUE} : RefKind(ref) # "commit"},
          inTree \in Trees, out \in BOOLEAN :
          /\ ops' = Append(ops, Op("clone", ok))
          /\ stdout' = (stdout \/ out)
          /\ IF ok
             THEN /\ disk' = Cloned(source, ref, inTree)
                  /\ stderr' = Append(stderr, "Stack pulled successfully")
                  /\ Return("nil")
             ELSE /\ disk' = Missing
                  /\ UNCHANGED stderr
                  /\ Return("err")
    /\ UNCHANGED <<klabctlDir, Env, source, force, depth, switched, pre, prevOK>>

\* RemoveAndRecurse with a failing removal treated as a warning, as the force
\* path does, instead of returning the error
RemoveAndRecurse_warnOnly ==
    /\ pc = "removeAll"
    /\ depth < MaxDepth
    /\ \E ok \in BOOLEAN :
          /\ ops' = Append(ops, Op("removeall", ok))
          /\ disk' \in (IF ok THEN {Missing} ELSE RemoveAllFailed(disk))
          /\ depth' = depth + 1
          /\ force' = FALSE
          /\ switched' = FALSE
          /\ pc' = "createHidden"
          /\ UNCHANGED result
    /\ UNCHANGED <<klabctlDir, Env, source, stderr, stdout, pre, prevOK>>

\* os.RemoveAll of the cache directory followed by the recursive call
\* EnsureStackAvailable(source, ref, false) (lines 272-275, 284-287, 300-303,
\* 317-320, 329-332)
RemoveAndRecurse ==
    /\ pc = "removeAll"
    /\ depth < MaxDepth
    /\ \E ok \in BOOLEAN :
          /\ ops' = Append(ops, Op("removeall", ok))
          /\ IF ok
             THEN /\ disk' = Missing
                  /\ depth' = depth + 1
                  /\ force' = FALSE
                  /\ switched' = FALSE
                  /\ pc' = "createHidden"
                  /\ UNCHANGED result
             ELSE /\ disk' \in RemoveAllFailed(disk)
                  /\ Return("err")
                  /\ UNCHANGED <<depth, force, switched>>
    /\ UNCHANGED <<klabctlDir, Env, source, stderr, stdout, pre, prevOK>>

\* getCachedVersion and the comparison with ref (lines 278-291, 311-312)
getCachedVersion ==
    /\ pc = "getCachedVersion"
    /\ ops' = Append(ops, Op("rev-parse", GitWorks(disk)))
    /\ IF ~GitWorks(disk)
       THEN /\ pc' = "removeAll"
            /\ stderr' = stderr \o <<"Cannot determine cache ref", "Re-pulling stack...">>
       ELSE IF CachedVersion(disk) = ref
       THEN /\ pc' = "validate"
            /\ UNCHANGED stderr
       ELSE /\ pc' = "fetch"
            /\ stderr' = Append(stderr, "Switching cache")
    /\ UNCHANGED <<disk, klabctlDir, Env, source, force, depth, switched, stdout,
                   result, pre, prevOK>>

\* isValidCache at lines 293 and 324
Validate ==
    /\ pc = "validate"
    /\ ops' = Append(ops, Op("status", GitWorks(disk)))
    /\ IF isValidCache(disk)
       THEN /\ stderr' = Append(stderr, IF switched THEN "Cache switched and validated"
                                                   ELSE "Using cached stack")
            /\ Return("nil")
       ELSE /\ stderr' = stderr \o <<IF switched THEN "Cache invalid after version switch"
                                                 ELSE "Cache is corrupted or has modifications",
                                     "Repairing cache...">>
            /\ pc' = "reset"
            /\ UNCHANGED result
    /\ UNCHANGED <<disk, klabctlDir, Env, source, force, depth, switched, stdout, pre, prevOK>>

\* repairCache, git reset --hard HEAD (lines 163-169); a repair error leads
\* to the re-clone (lines 296-303, 326-332)
RepairReset ==
    /\ pc = "reset"
    /\ \E ok \in {FALSE} \cup {b \in {TRUE} : GitWorks(disk)} :
          /\ ops' = Append(ops, Op("reset", ok))
          /\ IF ok
             THEN /\ disk' = ResetHard(disk)
                  /\ pc' = "clean"
                  /\ UNCHANGED stderr
             ELSE /\ pc' = "removeAll"
                  /\ stderr' = stderr \o <<"Repair failed", "Re-pulling stack...">>
                  /\ UNCHANGED disk
    /\ UNCHANGED <<klabctlDir, Env, source, force, depth, switched, stdout, result, pre, prevOK>>

\* repairCache, git clean -fd (lines 171-178), and the return that follows
\* a repair without error (lines 307-308, 336-338)
RepairClean ==
    /\ pc = "clean"
    /\ \E ok \in {FALSE} \cup {b \in {TRUE} : GitWorks(disk)} :
          /\ ops' = Append(ops, Op("clean", ok))
          /\ IF ok
             THEN /\ disk' = CleanFd(disk)
                  /\ stderr' = stderr \o <<"Cache repaired",
                                           IF switched THEN "Cache switched and validated"
                                                       ELSE "Using cached stack">>
                  /\ Return("nil")
             ELSE /\ pc' = "removeAll"
                  /\ stderr' = stderr \o <<"Repair failed", "Re-pulling stack...">>
                  /\ UNCHANGED <<disk, result>>
    /\ UNCHANGED <<klabctlDir, Env, source, force, depth, switched, stdout, pre, prevOK>>

\* updateGitRepo, git fetch origin (lines 183-190), child's stdout is os.Stdout
Fetch ==
    /\ pc = "fetch"
    /\ \E ok \in {FALSE} \cup {b \in {TRUE} : GitWorks(disk)}, out \in BOOLEAN :
          /\ ops' = Append(ops, Op("fetch", ok))
          /\ stdout' = (stdout \/ out)
          /\ IF ok
             THEN /\ pc' = "checkout"
                  /\ stderr' = Append(stderr, "Fetching updates...")
             ELSE /\ pc' = "removeAll"
                  /\ stderr' = stderr \o <<"Fetching updates...", "Version switch failed",
                                           "Re-pulling stack...">>
    /\ UNCHANGED <<disk, klabctlDir, Env, source, force, depth, switched, result, pre, prevOK>>

\* updateGitRepo, git checkout ref (lines 192-198), child's stdout is os.Stdout
CheckoutRef ==
    /\ pc = "checkout"
    /\ \E ok \in {FALSE} \cup {b \in {TRUE} : GitWorks(disk)},
          inTree \in Trees, out \in BOOLEAN :
          /\ ok => CheckoutPossible(disk, inTree)
          /\ ops' = Append(ops, Op("checkout", ok))
          /\ stdout' = (stdout \/ out)
          /\ IF ok
             THEN /\ disk' = Checkout(disk, ref, inTree)
                  /\ pc' = "pull"
                  /\ UNCHANGED stderr
             ELSE /\ pc' = "removeAll"
                  /\ stderr' = stderr \o <<"Version switch failed", "Re-pulling stack...">>
                  /\ UNCHANGED disk
    /\ UNCHANGED <<klabctlDir, Env, source, force, depth, switched, result, pre, prevOK>>

\* PullFfOnly with the pull's error returned like the fetch's and checkout's
PullFfOnly_errorReturned ==
    /\ pc = "pull"
    /\ \E ok \in {FALSE} \cup {b \in {TRUE} : GitWorks(disk) /\ disk.abbrev # "HEAD"} :
          /\ ops' = Append(ops, Op("pull", ok))
          /\ IF ok
             THEN /\ switched' = TRUE
                  /\ pc' = "validate"
                  /\ UNCHANGED stderr
             ELSE /\ pc' = "removeAll"
                  /\ stderr' = stderr \o <<"Version switch failed", "Re-pulling stack...">>
                  /\ UNCHANGED switched
    /\ UNCHANGED <<disk, klabctlDir, Env, source, force, depth, stdout, result, pre, prevOK>>

\* updateGitRepo, git pull --ff-only (lines 200-204): the error is dropped and
\* the child's output is not connected; the tree after checkout and pull is
\* the one chosen at the checkout
PullFfOnly ==
    /\ pc = "pull"
    /\ \E ok \in {FALSE} \cup {b \in {TRUE} : GitWorks(disk) /\ disk.abbrev # "HEAD"} :
          ops' = Append(ops, Op("pull", ok))
    /\ switched' = TRUE
    /\ pc' = "validate"
    /\ UNCHANGED <<disk, klabctlDir, Env, source, force, depth, stderr, stdout, result,
                   pre, prevOK>>

\* the top-level call has returned to its caller
Returned ==
    /\ pc = "done"
    /\ pc' = "idle"
    /\ prevOK' = IF result = "nil" /\ ~pre.force THEN source ELSE ""
    /\ source' = ""
    /\ force' = FALSE
    /\ depth' = 0
    /\ switched' = FALSE
    /\ ops' = <<>>
    /\ stderr' = <<>>
    /\ stdout' = FALSE
    /\ result' = "none"
    /\ pre' = NoFacts
    /\ UNCHANGED <<disk, klabctlDir, Env>>

Next ==
    \/ \E s \in Sources, f \in BOOLEAN : EnsureStackAvailable(s, f)
    \/ createHiddenKlabctlDir
    \/ ForceRemove
    \/ StatCache
    \/ pullStack
    \/ Clone
    \/ RemoveAndRecurse
    \/ getCachedVersion
    \/ Validate
    \/ RepairReset
    \/ RepairClean
    \/ Fetch
    \/ CheckoutRef
    \/ PullFfOnly
    \/ Returned

\* the other commands stand still while EnsureStackAvailable is modelled
PullStart == Init /\ GenOff /\ CopyOff /\ ValOff /\ SiteOff /\ IpOff /\ NvOff /\ GetOff /\ CacheOff /\ HelmOff /\ InitOff

Spec == PullStart /\ [][Next]_allVars

TypeOK ==
    /\ disk \in DiskStates
    /\ pc \in {"idle", "createHidden", "force", "stat", "pullStack", "clone", "removeAll",
               "getCachedVersion", "validate", "reset", "clean", "fetch", "checkout",
               "pull", "done"}
    /\ result \in {"none", "nil", "err"}
    /\ depth \in 0..MaxDepth

\* the steps of a running call
Step ==
    \/ createHiddenKlabctlDir
    \/ ForceRemove
    \/ StatCache
    \/ pullStack
    \/ Clone
    \/ RemoveAndRecurse
    \/ getCachedVersion
    \/ Validate
    \/ RepairReset
    \/ RepairClean
    \/ Fetch
    \/ CheckoutRef
    \/ PullFfOnly

\* the program is single-threaded and every operation blocks until it is
\* done, so a running call always takes its next step
FairSpec == Spec /\ WF_vars(Step)

----------------------------------------------------------------------------
\* Properties

HasOp(name, ok) == \E i \in DOMAIN ops : ops[i] = Op(name, ok)

Attempted(name) == \E i \in DOMAIN ops : ops[i].op = name

Count(name) == Cardinality({i \in DOMAIN ops : ops[i].op = name})

Recloned == HasOp("clone", TRUE)

ReturnedNil == pc = "done" /\ result = "nil"

\* the operation after the i-th one is name, or the call is about to run it
NextIs(i, name, at) == IF i < Len(ops) THEN ops[i + 1].op = name ELSE pc = at

\* C1: a call with force = false that starts on a cache checked out at ref
\* with uncommitted changes and returns nil leaves a cache that isValidCache
\* accepts.
C1_RepairedCacheIsValid ==
    (ReturnedNil /\ ~pre.force /\ pre.isGit /\ pre.atRef /\ pre.dirty) => isValidCache(disk)

\* C2: whenever a call returns nil the cache is a git repository with a
\* clean working tree that contains stack/apps and stack/templates.
C2_SuccessEstablishesInvariant ==
    ReturnedNil => (isGitRepo(disk) /\ ~StatusNotEmpty(disk) /\ RequiredPathsExist(disk))

\* C3: a call that directly follows a successful call with the same source,
\* the same ref and force = false only validates (no clone, fetch, checkout,
\* pull, reset, clean or delete) and returns nil.
C3_SecondCallOnlyValidates ==
    (pc # "idle" /\ ~pre.force /\ prevOK = source) =>
        /\ \A i \in DOMAIN ops : ops[i].op \notin Mutating
        /\ pc = "done" => result = "nil"

C5_NoSuccessOnCorruptCache ==
    (ReturnedNil /\ pre.exists /\ ~Recloned) =>
        /\ isValidCache(disk)
        /\ \A i \in DOMAIN ops : ops[i].op \in {"rev-parse", "reset", "clean", "fetch", "checkout"}
                                    => ops[i].ok

\* C6: a call with force = true that returns nil ends with a freshly cloned
\* cache.
C6_ForceAlwaysReclones ==
    (ReturnedNil /\ pre.force) => (Recloned /\ ops[Len(ops)] = Op("clone", TRUE))

\* C7: the switch runs only when the cached ref differs; fetch, checkout and
\* pull run in this order; a failing fetch or checkout is followed by the
\* removal of the cache and, when that succeeds, by the clone path; the pull's
\* outcome is ignored and validation follows; an invalid cache after the
\* switch is repaired, and a failing repair is followed by the removal.
C7_RefSwitch ==
    /\ pc = "fetch" => (isGitRepo(disk) /\ CachedVersion(disk) # ref)
    /\ (pc = "validate" /\ ~switched) => CachedVersion(disk) = ref
    /\ \A i \in DOMAIN ops :
          /\ ops[i].op = "checkout" => (i > 1 /\ ops[i - 1] = Op("fetch", TRUE))
          /\ ops[i].op = "pull" => (i > 1 /\ ops[i - 1] = Op("checkout", TRUE))
          /\ ops[i] = Op("fetch", TRUE) => NextIs(i, "checkout", "checkout")
          /\ ops[i] = Op("checkout", TRUE) => NextIs(i, "pull", "pull")
          /\ ops[i] \in {Op("fetch", FALSE), Op("checkout", FALSE)}
                => NextIs(i, "removeall", "removeAll")
          /\ ops[i].op = "pull" => NextIs(i, "status", "validate")
          /\ (ops[i].op = "status" /\ i > 1 /\ ops[i - 1].op = "pull")
                => \/ NextIs(i, "reset", "reset")
                   \/ i = Len(ops) /\ ReturnedNil /\ isValidCache(disk)
          /\ ops[i] \in {Op("reset", FALSE), Op("clean", FALSE)}
                => NextIs(i, "removeall", "removeAll")
    /\ (pc = "done" /\ (HasOp("fetch", FALSE) \/ HasOp("checkout", FALSE)))
          => /\ result = "nil" <=> Recloned
             /\ HasOp("removeall", TRUE) <=> Attempted("mkdirall")
             /\ HasOp("mkdirall", TRUE) <=> Attempted("clone")

C7_Witness ==
    /\ ReturnedNil
    /\ switched
    /\ HasOp("pull", FALSE)
    /\ ~Attempted("removeall")
    /\ ~Attempted("reset")

\* C8: after a call with force = false returns nil the cache holds a working
\* copy of the repository at the call's source.
C8_CacheHoldsRequestedSource ==
    (ReturnedNil /\ ~pre.force) => disk.origin = source

\* C9: with git missing from PATH a call (here: without force) returns an
\* error and has neither deleted nor modified the cache directory.
C9_NoGitNoMutation ==
    (~gitAvailable /\ pc # "idle" /\ ~pre.force) =>
        /\ \A i \in DOMAIN ops : ops[i].op \notin Mutating
        /\ pc = "done" => result = "err"

\* C10: nothing is written to standard output during a call.
C10_StdoutUntouched == ~stdout

----------------------------------------------------------------------------
\* The generate command (generate.go lines 15-168)

\* runs of generate the model follows
MaxRuns == 2

\* hand edits of the output tree the model follows
MaxEdits == 1

Comps == {"pihole", "certmgr"}

\* a catalog entry (project and namespace are "" when not given)
Entries ==
    {[enabled |-> FALSE, project |-> "net", namespace |-> "dns"],
     [enabled |-> TRUE, project |-> "net", namespace |-> "dns"],
     [enabled |-> TRUE, project |-> "", namespace |-> "dns"],
     [enabled |-> TRUE, project |-> "net", namespace |-> ""]}

\* a file below apps/<component>/templates: its directory below templates,
\* and its name split at the last dot
TemplateFile(d, st, sf) == [dir |-> d, stem |-> st, suffix |-> sf]

KustomizationTmpl == TemplateFile(<<>>, "kustomization.yaml", ".tmpl")
SecretPatchTmpl == TemplateFile(<<>>, "secret-patch.yaml", ".tmpl")
ExtraKustomizationTmpl == TemplateFile(<<"extra">>, "kustomization.yaml", ".tmpl")
ReadmeFile == TemplateFile(<<>>, "README", ".md")

\* the general template templates/base.kustomization.yaml.tmpl
BaseTmpl == TemplateFile(<<>>, "base.kustomization.yaml", ".tmpl")

\* filepath.WalkDir visits in lexical order: extra/..., kustomization...,
\* README..., secret-patch... (upper case sorts first)
WalkOrder == <<ReadmeFile, ExtraKustomizationTmpl, KustomizationTmpl, SecretPatchTmpl>>

\* apps/<component> in the stack cache
CompStacks ==
    {[base |-> FALSE, templates |-> {}],
     [base |-> TRUE, templates |-> {}],
     [base |-> TRUE, templates |-> {ReadmeFile}],
     [base |-> TRUE, templates |-> {KustomizationTmpl, SecretPatchTmpl}],
     [base |-> TRUE, templates |-> {ExtraKustomizationTmpl, KustomizationTmpl, ReadmeFile}]}

\* strings.HasSuffix(path, ".tmpl")
HasTmplSuffix(t) == t.suffix = ".tmpl"

\* strings.TrimSuffix(filepath.Base(templateName), ".tmpl") (lines 150-151)
OutputFileName(t) == IF t.suffix = ".tmpl" THEN t.stem ELSE t.stem \o t.suffix

FindAppTemplates_noSuffixFilter(c) ==
    SelectSeq(WalkOrder, LAMBDA t : t \in stack[c].templates)

\* FindAppTemplates (lines 460-491): the .tmpl files below the component's
\* templates directory, in the order of the walk
FindAppTemplates(c) ==
    SelectSeq(WalkOrder, LAMBDA t : t \in stack[c].templates /\ HasTmplSuffix(t))

\* the files of a component's output directory; the copied base directory
\* counts as one entry
RootK(c) == <<c, "", "kustomization.yaml">>
CustomValues(c) == <<c, "custom", "values.yaml">>
CustomK(c) == <<c, "custom", "kustomization.yaml">>
Generated(c, n) == <<c, "generated", n>>
BaseDir(c) == <<c, "base", "">>

OutNames == {"kustomization.yaml", "secret-patch.yaml", "README.md"}

Scaffold(c) == {RootK(c), CustomValues(c), CustomK(c)}

Files(c) == Scaffold(c) \cup {Generated(c, n) : n \in OutNames} \cup {BaseDir(c)}

AllFiles == UNION {Files(c) : c \in Comps}

\* componentPath (line 88)
ComponentPath(c) == <<"apps", site.catalog[c].project, site.catalog[c].namespace, c>>

\* the general templates of the scaffolding files
RootTmpl == TemplateFile(<<>>, "root.kustomization.yaml", ".tmpl")
CustomValuesTmpl == TemplateFile(<<>>, "custom.values.yaml", ".tmpl")
CustomKustomizationTmpl == TemplateFile(<<>>, "custom.kustomization.yaml", ".tmpl")

NoTmpl == TemplateFile(<<>>, "", "")

\* content of a file of the output tree
Content(k, c, t) == [kind |-> k, comp |-> c, tmpl |-> t]

Absent == Content("absent", "", NoTmpl)

\* a file changed by hand
Edited == Content("edited", "", NoTmpl)

\* a file left behind by a failed Execute, or a directory by a failed copyDir
Partial == Content("partial", "", NoTmpl)

\* the copy of the stack's apps/<c>/base
StackBase(c) == Content("stack", c, NoTmpl)

\* what executing template t for component c writes
Rendered(c, t) == Content("rendered", c, t)

AfterRender_keepExisting(old, content, o) ==
    IF old # Absent THEN old
    ELSE IF o = "ok" THEN content
    ELSE IF o = "execute" THEN Partial
    ELSE old

AfterRender_createFirst(old, content, o) ==
    IF o = "ok" THEN content
    ELSE IF o = "create" THEN old
    ELSE Partial

\* outcome of rendering one template: an error before os.Create (read or
\* parse), an error of os.Create, an error of Execute, or success
RenderOutcomes == {"ok", "read", "create", "execute"}

\* the file after a render with outcome o that would write content
AfterRender(old, content, o) ==
    IF o = "ok" THEN content
    ELSE IF o = "execute" THEN Partial
    ELSE old

\* the catalogs the model follows: the first component takes every kind of
\* entry, the second one is disabled or complete
Catalogs ==
    {k \in [Comps -> Entries] :
        k["certmgr"].project # "" /\ k["certmgr"].namespace # ""}

\* the sites the model follows; a site file that does not load has no content
Sites ==
    {s \in [loadable : BOOLEAN, stackSet : BOOLEAN, infra : BOOLEAN, catalog : Catalogs] :
        (~s.loadable \/ ~s.stackSet) =>
            /\ ~s.infra
            /\ \A c \in Comps : ~s.catalog[c].enabled}

\* the stack caches the model follows: the second component has a base and
\* either no template or two
Stacks ==
    {s \in [Comps -> CompStacks] :
        s["certmgr"].base /\ ReadmeFile \notin s["certmgr"].templates}

\* a path and the directories above it
Prefixes(p) == {SubSeq(p, 1, n) : n \in 1..Len(p)}

\* the sub directories of a component's output directory
SubDirs == {"base", "generated", "custom"}

\* what an earlier generate left behind for a component that has been
\* disabled since: the copied base, the rendered base template and the
\* scaffolding, filled in by the user
LeftBehind(f) ==
    IF f = BaseDir(f[1]) THEN StackBase(f[1])
    ELSE IF f = Generated(f[1], "kustomization.yaml") THEN Rendered(f[1], BaseTmpl)
    ELSE IF f \in Scaffold(f[1]) THEN Edited
    ELSE Absent

LeftBehindDirs(c) == UNION {Prefixes(ComponentPath(c) \o <<sub>>) : sub \in SubDirs}

GenFrame == <<vars, copyVars, valVars, siteVars, ipVars, nvVars, getVars, cacheVars, helmVars, initVars>>

GenInit ==
    /\ gpc = "idle"
    /\ site \in Sites
    /\ stack \in Stacks
    /\ \E old \in SUBSET {c \in Comps : ~site.catalog[c].enabled} :
          /\ fs = [f \in AllFiles |-> IF f[1] \in old THEN LeftBehind(f) ELSE Absent]
          /\ dirs = UNION {LeftBehindDirs(c) : c \in old}
    /\ todo = {}
    /\ cur = ""
    /\ tq = <<>>
    /\ written = {}
    /\ renders = <<>>
    /\ gresult = "none"
    /\ runs = 0
    /\ edits = 0
    /\ handEdited = {}
    /\ snap = NoSnap

\* the pull model stands still while generate is modelled
PullOff ==
    /\ disk = Missing
    /\ klabctlDir = "absent"
    /\ gitAvailable = TRUE
    /\ ref = "main"
    /\ pc = "off"
    /\ source = ""
    /\ force = FALSE
    /\ depth = 0
    /\ switched = FALSE
    /\ ops = <<>>
    /\ stderr = <<>>
    /\ stdout = FALSE
    /\ result = "none"
    /\ pre = NoFacts
    /\ prevOK = ""

GReturn(r) ==
    /\ gpc' = "done"
    /\ gresult' = r

\* the command starts (line 20)
Generate ==
    /\ gpc = "idle"
    /\ runs < MaxRuns
    /\ gpc' = "load"
    /\ todo' = Comps
    /\ cur' = ""
    /\ tq' = <<>>
    /\ written' = {}
    /\ renders' = <<>>
    /\ gresult' = "none"
    /\ UNCHANGED <<site, stack, fs, dirs, runs, edits, handEdited, snap, GenFrame>>

LoadAndEnsure_ignoreError ==
    /\ gpc = "load"
    /\ gpc' = "infra"
    /\ UNCHANGED <<site, stack, fs, dirs, todo, cur, tq, written, renders, gresult, runs, edits,
                   handEdited, snap, GenFrame>>

\* LoadSiteFromFile, the stack fields and EnsureStackAvailable (lines 21-33)
LoadAndEnsure ==
    /\ gpc = "load"
    /\ IF ~site.loadable \/ ~site.stackSet
       THEN GReturn("err")
       ELSE \E ok \in BOOLEAN :
              IF ok THEN gpc' = "infra" /\ UNCHANGED gresult
              ELSE GReturn("err")
    /\ UNCHANGED <<site, stack, fs, dirs, todo, cur, tq, written, renders, runs, edits, handEdited, snap,
                   GenFrame>>

\* the infrastructure part (lines 35-54): copyInfraBase, the terraform
\* directory and generateTerraformRoot, all below clusters/<name>/infra
GenerateInfra ==
    /\ gpc = "infra"
    /\ IF ~site.infra
       THEN /\ gpc' = "mkApps"
            /\ UNCHANGED <<dirs, written, gresult>>
       ELSE \E ok \in BOOLEAN, touched \in BOOLEAN :
              /\ (ok => touched)
              /\ dirs' = IF touched THEN dirs \cup {<<"infra">>} ELSE dirs
              /\ written' = IF touched THEN written \cup {<<"infra">>} ELSE written
              /\ IF ok THEN gpc' = "mkApps" /\ UNCHANGED gresult
                 ELSE GReturn("err")
    /\ UNCHANGED <<site, stack, fs, todo, cur, tq, renders, runs, edits, handEdited, snap, GenFrame>>

\* os.MkdirAll(appsPath) (lines 56-62)
MkdirApps ==
    /\ gpc = "mkApps"
    /\ \E ok \in BOOLEAN :
          IF ok
          THEN /\ dirs' = dirs \cup {<<"apps">>}
               /\ written' = written \cup ({<<"apps">>} \ dirs)
               /\ gpc' = "loop"
               /\ UNCHANGED gresult
          ELSE /\ GReturn("err")
               /\ UNCHANGED <<dirs, written>>
    /\ UNCHANGED <<site, stack, fs, todo, cur, tq, renders, runs, edits, handEdited, snap, GenFrame>>

LoopNext_noSkip ==
    /\ gpc = "loop"
    /\ IF todo = {}
       THEN /\ GReturn("nil")
            /\ UNCHANGED <<todo, cur>>
       ELSE \E c \in todo :
              /\ todo' = todo \ {c}
              /\ UNCHANGED gresult
              /\ cur' = c
              /\ gpc' = "copyBase"
    /\ UNCHANGED <<site, stack, fs, dirs, tq, written, renders, runs, edits, handEdited, snap, GenFrame>>

\* the range over the catalog, in any order, skipping disabled entries
\* (lines 67-70), and the return after the loop (lines 162-163)
LoopNext ==
    /\ gpc = "loop"
    /\ IF todo = {}
       THEN /\ GReturn("nil")
            /\ UNCHANGED <<todo, cur>>
       ELSE \E c \in todo :
              /\ todo' = todo \ {c}
              /\ UNCHANGED gresult
              /\ IF site.catalog[c].enabled
                 THEN cur' = c /\ gpc' = "copyBase"
                 ELSE cur' = "" /\ gpc' = "loop"
    /\ UNCHANGED <<site, stack, fs, dirs, tq, written, renders, runs, edits, handEdited, snap, GenFrame>>

\* os.MkdirAll of a directory below the component's path: the directories of
\* path p that are created
NewDirs(p) == Prefixes(p) \ dirs

copyAppBase_noProjectCheck ==
    /\ gpc = "copyBase"
    /\ IF ~stack[cur].base
       THEN /\ GReturn("err")
            /\ UNCHANGED <<fs, dirs, written>>
       ELSE /\ fs' = [fs EXCEPT ![BaseDir(cur)] = StackBase(cur)]
            /\ dirs' = dirs \cup NewDirs(ComponentPath(cur) \o <<"base">>)
            /\ written' = written \cup {BaseDir(cur)}
                                  \cup NewDirs(ComponentPath(cur) \o <<"base">>)
            /\ gpc' = "mkGenerated"
            /\ UNCHANGED gresult
    /\ UNCHANGED <<site, stack, todo, cur, tq, renders, runs, edits, handEdited, snap, GenFrame>>

\* copyAppBase (lines 528-561): the base must exist in the cache, project and
\* namespace must be given; then os.RemoveAll of the old copy and copyDir
copyAppBase ==
    /\ gpc = "copyBase"
    /\ IF \/ ~stack[cur].base
          \/ site.catalog[cur].project = ""
          \/ site.catalog[cur].namespace = ""
       THEN /\ GReturn("err")
            /\ UNCHANGED <<fs, dirs, written>>
       ELSE \E o \in {"ok", "removeall", "copydir"} :
              IF o = "removeall"
              THEN /\ GReturn("err")
                   /\ UNCHANGED <<fs, dirs, written>>
              ELSE /\ fs' = [fs EXCEPT ![BaseDir(cur)] = IF o = "ok" THEN StackBase(cur) ELSE Partial]
                   /\ dirs' = dirs \cup NewDirs(ComponentPath(cur) \o <<"base">>)
                   /\ written' = written \cup {BaseDir(cur)}
                                         \cup NewDirs(ComponentPath(cur) \o <<"base">>)
                   /\ IF o = "ok" THEN gpc' = "mkGenerated" /\ UNCHANGED gresult
                      ELSE GReturn("err")
    /\ UNCHANGED <<site, stack, todo, cur, tq, renders, runs, edits, handEdited, snap, GenFrame>>

\* os.MkdirAll(sub directory of the component) (lines 92-94, 105-108)
MkdirComponent(at, sub, then) ==
    /\ gpc = at
    /\ \E ok \in BOOLEAN :
          IF ok
          THEN /\ dirs' = dirs \cup NewDirs(ComponentPath(cur) \o <<sub>>)
               /\ written' = written \cup NewDirs(ComponentPath(cur) \o <<sub>>)
               /\ gpc' = then
               /\ UNCHANGED gresult
          ELSE /\ GReturn("err")
               /\ UNCHANGED <<dirs, written>>
    /\ UNCHANGED <<site, stack, fs, todo, cur, tq, renders, runs, edits, handEdited, snap, GenFrame>>

MkdirGenerated == MkdirComponent("mkGenerated", "generated", "rootK")

MkdirCustom == MkdirComponent("mkCustom", "custom", "customValues")

CreateIfMissing_always(at, f, tmpl, then) ==
    /\ gpc = at
    /\ fs' = [fs EXCEPT ![f] = Rendered(cur, tmpl)]
    /\ written' = written \cup {f}
    /\ gpc' = then
    /\ UNCHANGED <<site, stack, dirs, todo, cur, tq, renders, gresult, runs, edits, handEdited, snap,
                   GenFrame>>

\* a scaffolding file is rendered only if os.Stat says it does not exist
\* (lines 96-124, createRootKustomization, createCustomValuesTemplate,
\* createCustomKustomizationTemplate)
CreateIfMissing(at, f, tmpl, then) ==
    /\ gpc = at
    /\ IF fs[f] # Absent
       THEN /\ gpc' = then
            /\ UNCHANGED <<fs, written, gresult>>
       ELSE \E o \in RenderOutcomes :
              /\ fs' = [fs EXCEPT ![f] = AfterRender(@, Rendered(cur, tmpl), o)]
              /\ written' = IF o \in {"ok", "execute"} THEN written \cup {f} ELSE written
              /\ IF o = "ok" THEN gpc' = then /\ UNCHANGED gresult
                 ELSE GReturn("err")
    /\ UNCHANGED <<site, stack, dirs, todo, cur, tq, renders, runs, edits, handEdited, snap, GenFrame>>

CreateRootKustomization ==
    CreateIfMissing("rootK", RootK(cur), RootTmpl, "mkCustom")

CreateCustomValues ==
    CreateIfMissing("customValues", CustomValues(cur), CustomValuesTmpl, "customK")

CreateCustomKustomization ==
    CreateIfMissing("customK", CustomK(cur), CustomKustomizationTmpl, "find")

\* FindAppTemplates and the choice between the base template and the
\* component's own templates (lines 126-136)
FindTemplates ==
    /\ gpc = "find"
    /\ \E ok \in BOOLEAN :
          IF ok
          THEN /\ tq' = FindAppTemplates(cur)
               /\ gpc' = IF Len(FindAppTemplates(cur)) = 0 THEN "renderBase" ELSE "render"
               /\ UNCHANGED gresult
          ELSE /\ GReturn("err")
               /\ UNCHANGED tq
    /\ UNCHANGED <<site, stack, fs, dirs, todo, cur, written, renders, runs, edits, handEdited, snap,
                   GenFrame>>

\* RenderKustomizationTemplate and RenderTemplate (lines 193-349): template
\* t of the current component is executed into generated/<name>; the file is
\* created (truncated) only after all templates were read and parsed
RenderInto(t, name, o) ==
    /\ fs' = [fs EXCEPT ![Generated(cur, name)] = AfterRender(@, Rendered(cur, t), o)]
    /\ written' = IF o \in {"ok", "execute"} THEN written \cup {Generated(cur, name)}
                  ELSE written
    /\ renders' = Append(renders, [comp |-> cur, tmpl |-> t, out |-> name, outcome |-> o])

\* the base template, when the component has no template of its own
\* (lines 136-143)
RenderBase ==
    /\ gpc = "renderBase"
    /\ \E o \in RenderOutcomes :
          /\ RenderInto(BaseTmpl, "kustomization.yaml", o)
          /\ IF o = "ok" THEN gpc' = "loop" /\ UNCHANGED gresult
             ELSE GReturn("err")
    /\ UNCHANGED <<site, stack, dirs, todo, cur, tq, runs, edits, handEdited, snap, GenFrame>>

RenderNext_continueOnError ==
    /\ gpc = "render"
    /\ \E o \in RenderOutcomes :
          /\ RenderInto(Head(tq), OutputFileName(Head(tq)), o)
          /\ tq' = Tail(tq)
          /\ gpc' = IF Len(tq) = 1 THEN "loop" ELSE "render"
          /\ UNCHANGED gresult
    /\ UNCHANGED <<site, stack, dirs, todo, cur, runs, edits, handEdited, snap, GenFrame>>

\* the component's own templates, one after the other (lines 145-158)
RenderNext ==
    /\ gpc = "render"
    /\ \E o \in RenderOutcomes :
          /\ RenderInto(Head(tq), OutputFileName(Head(tq)), o)
          /\ IF o = "ok"
             THEN /\ tq' = Tail(tq)
                  /\ gpc' = IF Len(tq) = 1 THEN "loop" ELSE "render"
                  /\ UNCHANGED gresult
             ELSE /\ GReturn("err")
                  /\ UNCHANGED tq
    /\ UNCHANGED <<site, stack, dirs, todo, cur, runs, edits, handEdited, snap, GenFrame>>

\* the command has returned
GenerateReturned ==
    /\ gpc = "done"
    /\ gpc' = "idle"
    /\ runs' = runs + 1
    /\ snap' = IF gresult = "nil" THEN fs ELSE NoSnap
    /\ todo' = {}
    /\ cur' = ""
    /\ tq' = <<>>
    /\ written' = {}
    /\ renders' = <<>>
    /\ gresult' = "none"
    /\ handEdited' = {}
    /\ UNCHANGED <<site, stack, fs, dirs, edits, GenFrame>>

\* after a run that succeeded, and before the next one, the user edits or
\* deletes a file of the output tree
EditByHand ==
    /\ gpc = "idle"
    /\ snap # NoSnap
    /\ handEdited = {}
    /\ edits < MaxEdits
    /\ \E f \in AllFiles, to \in {Edited, Absent} :
          /\ fs[f] # Absent
          /\ fs' = [fs EXCEPT ![f] = to]
          /\ handEdited' = handEdited \cup {f}
    /\ edits' = edits + 1
    /\ UNCHANGED <<gpc, site, stack, dirs, todo, cur, tq, written, renders, gresult, runs,
                   snap, GenFrame>>

GenNext ==
    \/ Generate
    \/ LoadAndEnsure
    \/ GenerateInfra
    \/ MkdirApps
    \/ LoopNext
    \/ copyAppBase
    \/ MkdirGenerated
    \/ CreateRootKustomization
    \/ MkdirCustom
    \/ CreateCustomValues
    \/ CreateCustomKustomization
    \/ FindTemplates
    \/ RenderBase
    \/ RenderNext
    \/ GenerateReturned
    \/ EditByHand

GenStart == GenInit /\ PullOff /\ CopyOff /\ ValOff /\ SiteOff /\ IpOff /\ NvOff /\ GetOff /\ CacheOff /\ HelmOff /\ InitOff

SpecGen == GenStart /\ [][GenNext]_allVars

----------------------------------------------------------------------------
\* Properties of generate

EnabledComps == {c \in Comps : site.catalog[c].enabled}

Lacking(c) == site.catalog[c].project = "" \/ site.catalog[c].namespace = ""

\* the directories and files of component c in a set of paths of the output
\* tree
DirsFor(c, ds) == {d \in ds : Len(d) >= 4 /\ d[1] = "apps" /\ d[4] = c}
FilesFor(c, ws) == {w \in ws : Len(w) = 3 /\ w[1] = c}
WrittenFor(c) == DirsFor(c, written) \cup FilesFor(c, written)

\* the components whose output directory the running command has filled
Produced == {c \in Comps : BaseDir(c) \in written}

ReturnedOK == gpc = "done" /\ gresult = "nil"

C12_DisabledSkipped ==
    [][edits' = edits =>
          \A c \in Comps :
              ~site.catalog[c].enabled =>
                  /\ \A f \in Files(c) : fs'[f] = fs[f]
                  /\ DirsFor(c, dirs') = DirsFor(c, dirs)
                  /\ DirsFor(c, written') \cup FilesFor(c, written') = {}]_allVars

C12_Witness ==
    /\ ReturnedOK
    /\ \E c \in Comps \ EnabledComps : fs[RootK(c)] = Edited /\ fs[BaseDir(c)] = StackBase(c)
    /\ \E d \in EnabledComps : BaseDir(d) \in written

\* the renders of component c by the running command
RendersOf(c) == SelectSeq(renders, LAMBDA r : r.comp = c)

\* no file below apps/<c>/templates has the suffix .tmpl
NoTmplFile(c) == \A t \in stack[c].templates : t.suffix # ".tmpl"

\* the files the running command has written into generated/ of c
WrittenGenerated(c) == {w \in FilesFor(c, written) : w[2] = "generated"}

\* C13: for an enabled component without a .tmpl file below its templates
\* directory generate renders nothing but the base template, at most once,
\* and writes no file of generated/ but kustomization.yaml; when generate
\* returns nil the base template was rendered exactly once and
\* generated/kustomization.yaml holds its output.
C13_BaseFallback ==
    \A c \in EnabledComps :
        NoTmplFile(c) =>
            /\ Len(RendersOf(c)) <= 1
            /\ \A i \in DOMAIN RendersOf(c) :
                  /\ RendersOf(c)[i].tmpl = BaseTmpl
                  /\ RendersOf(c)[i].out = "kustomization.yaml"
            /\ WrittenGenerated(c) \subseteq {Generated(c, "kustomization.yaml")}
            /\ ReturnedOK =>
                  /\ Len(RendersOf(c)) = 1
                  /\ WrittenGenerated(c) = {Generated(c, "kustomization.yaml")}
                  /\ fs[Generated(c, "kustomization.yaml")] = Rendered(c, BaseTmpl)

C13_Witness ==
    /\ ReturnedOK
    /\ \E c \in EnabledComps :
          /\ stack[c].templates = {ReadmeFile}
          /\ Len(RendersOf(c)) = 1
          /\ fs[Generated(c, "kustomization.yaml")] = Rendered(c, BaseTmpl)

\* C14: for an enabled component with k >= 1 .tmpl files below its templates
\* directory generate renders each of them, and never the base template,
\* into generated/<file name without .tmpl>; when generate returns nil it
\* has written k distinct files into generated/ and each holds the output
\* of its template.
C14_OwnTemplates ==
    \A c \in EnabledComps :
        Len(FindAppTemplates(c)) >= 1 =>
            /\ \A i \in DOMAIN RendersOf(c) :
                  /\ RendersOf(c)[i].tmpl # BaseTmpl
                  /\ RendersOf(c)[i].out = OutputFileName(RendersOf(c)[i].tmpl)
            /\ ReturnedOK =>
                  /\ Cardinality(WrittenGenerated(c)) = Len(FindAppTemplates(c))
                  /\ \A i \in DOMAIN FindAppTemplates(c) :
                        fs[Generated(c, OutputFileName(FindAppTemplates(c)[i]))]
                            = Rendered(c, FindAppTemplates(c)[i])

\* C15: once a component's root kustomization.yaml, custom/values.yaml or
\* custom/kustomization.yaml exists, no step of any generate run changes,
\* truncates or removes it.
C15_ScaffoldingKept ==
    [][edits' = edits =>
          \A c \in Comps :
              \A f \in Scaffold(c) :
                  fs[f] # Absent => (fs'[f] = fs[f] /\ f \notin written' \ written)]_allVars

C15_Witness ==
    /\ ReturnedOK
    /\ runs >= 1
    /\ \E c \in Produced :
          /\ fs[CustomValues(c)] = Edited
          /\ fs[RootK(c)] = Rendered(c, RootTmpl)
          /\ fs[CustomK(c)] = Rendered(c, CustomKustomizationTmpl)

\* the copied base and the files of generated/ of component c
Regenerated(c) == {f \in Files(c) : f[2] \in {"base", "generated"}}

\* C16: when generate returns nil after an earlier run that returned nil,
\* with the same site config and stack cache, every enabled component has
\* the same files with the same contents under generated/ and base/ as
\* after the earlier run, whatever was edited or deleted by hand in between.
C16_IdempotentOverwrite ==
    (ReturnedOK /\ snap # NoSnap) =>
        \A c \in EnabledComps : \A f \in Regenerated(c) : fs[f] = snap[f]

C16_Witness ==
    /\ ReturnedOK
    /\ snap # NoSnap
    /\ \E c \in EnabledComps :
          /\ Generated(c, "kustomization.yaml") \in handEdited
          /\ fs[Generated(c, "kustomization.yaml")] = Rendered(c, KustomizationTmpl)

----------------------------------------------------------------------------
\* copyDir and copyFile (generate.go lines 590-654)

\* permission bits, as sets
Mode0755 == {"ur", "uw", "ux", "gr", "gx", "or", "ox"}
Mode0700 == {"ur", "uw", "ux"}
Mode0664 == {"ur", "uw", "gr", "gw", "or"}
Mode0644 == {"ur", "uw", "gr", "or"}
Mode0600 == {"ur", "uw"}
Mode0444 == {"ur", "gr", "or"}

Umasks == {{"gw", "ow"}, {"gr", "gw", "gx", "or", "ow", "ox"}}

Node(k, m, c) == [kind |-> k, mode |-> m, content |-> c]

NoNode == Node("none", {}, "")

\* the paths below src and dst the model follows, in the order copyDir
\* visits them: os.ReadDir returns the entries sorted by name
CopyOrder == <<<<>>, <<"d">>, <<"d", "f">>, <<"f">>>>

CopyPaths == {CopyOrder[i] : i \in DOMAIN CopyOrder}

Parent(p) == SubSeq(p, 1, Len(p) - 1)

\* a tree: every entry but the root lies in a directory
IsTree(t) ==
    \A p \in CopyPaths \ {<<>>} : t[p].kind # "none" => t[Parent(p)].kind = "dir"

SrcTrees ==
    {t \in [CopyPaths -> {NoNode, Node("dir", Mode0755, ""), Node("dir", Mode0700, ""),
                          Node("file", Mode0644, "new"), Node("file", Mode0664, "new")}] :
        /\ IsTree(t)
        /\ t[<<>>].kind # "file"
        /\ t[<<"d">>].kind # "file"
        /\ t[<<"d", "f">>].kind # "dir"
        /\ t[<<"f">>].kind # "dir"}

DstTrees ==
    {t \in [CopyPaths -> {NoNode, Node("dir", Mode0755, ""), Node("dir", Mode0700, ""),
                          Node("file", Mode0644, "old"), Node("file", Mode0600, "old"),
                          Node("file", Mode0444, "old")}] :
        /\ IsTree(t)
        /\ t[<<>>].kind # "file"
        /\ t[<<"d", "f">>].kind # "dir"}

CopyFrame == <<vars, genVars, valVars, siteVars, ipVars, nvVars, getVars, cacheVars, helmVars, initVars>>

CopyInit ==
    /\ cpc = "idle"
    /\ srcTree \in SrcTrees
    /\ dstTree \in DstTrees
    /\ umask \in Umasks
    /\ cq = <<>>
    /\ cresult = "none"

CReturn(r) ==
    /\ cpc' = "done"
    /\ cresult' = r

\* a new entry can be made at p: p is the root, or its directory allows
\* writing and searching
CanCreate(p) == p = <<>> \/ {"uw", "ux"} \subseteq dstTree[Parent(p)].mode

\* copyDir(src, dst) is called: os.Stat(src) (lines 593-596)
copyDir ==
    /\ cpc = "idle"
    /\ IF srcTree[<<>>].kind = "none"
       THEN /\ CReturn("err")
            /\ UNCHANGED cq
       ELSE /\ cq' = SelectSeq(CopyOrder, LAMBDA p : srcTree[p].kind # "none")
            /\ cpc' = "copy"
            /\ UNCHANGED cresult
    /\ UNCHANGED <<srcTree, dstTree, umask, CopyFrame>>

\* os.MkdirAll(dst, srcInfo.Mode()) for a directory of src (lines 598-601):
\* an existing directory is left as it is, a new one gets the mode less the
\* umask
MkdirAll ==
    /\ cpc = "copy"
    /\ cq # <<>>
    /\ srcTree[Head(cq)].kind = "dir"
    /\ IF dstTree[Head(cq)].kind = "dir"
       THEN /\ cq' = Tail(cq)
            /\ UNCHANGED <<dstTree, cpc, cresult>>
       ELSE IF dstTree[Head(cq)].kind = "file" \/ ~CanCreate(Head(cq))
       THEN /\ CReturn("err")
            /\ UNCHANGED <<dstTree, cq>>
       ELSE /\ dstTree' = [dstTree EXCEPT
                              ![Head(cq)] = Node("dir", srcTree[Head(cq)].mode \ umask, "")]
            /\ cq' = Tail(cq)
            /\ UNCHANGED <<cpc, cresult>>
    /\ UNCHANGED <<srcTree, umask, CopyFrame>>

\* copyFile (lines 629-654): os.OpenFile with O_WRONLY|O_CREATE|O_TRUNC and
\* the source's mode, then the bytes; the mode is used only when the file is
\* created, less the umask
copyFile ==
    /\ cpc = "copy"
    /\ cq # <<>>
    /\ srcTree[Head(cq)].kind = "file"
    /\ IF dstTree[Head(cq)].kind = "file" /\ "uw" \in dstTree[Head(cq)].mode
       THEN /\ dstTree' = [dstTree EXCEPT ![Head(cq)].content = srcTree[Head(cq)].content]
            /\ cq' = Tail(cq)
            /\ UNCHANGED <<cpc, cresult>>
       ELSE IF dstTree[Head(cq)].kind = "none" /\ CanCreate(Head(cq))
       THEN /\ dstTree' = [dstTree EXCEPT
                              ![Head(cq)] = Node("file", srcTree[Head(cq)].mode \ umask,
                                                 srcTree[Head(cq)].content)]
            /\ cq' = Tail(cq)
            /\ UNCHANGED <<cpc, cresult>>
       ELSE /\ CReturn("err")
            /\ UNCHANGED <<dstTree, cq>>
    /\ UNCHANGED <<srcTree, umask, CopyFrame>>

\* every entry is copied: return nil (line 626)
copyDirReturn ==
    /\ cpc = "copy"
    /\ cq = <<>>
    /\ CReturn("nil")
    /\ UNCHANGED <<srcTree, dstTree, umask, cq, CopyFrame>>

CopyNext ==
    \/ copyDir
    \/ MkdirAll
    \/ copyFile
    \/ copyDirReturn

CopyStart == CopyInit /\ PullOff /\ GenOff /\ ValOff /\ SiteOff /\ IpOff /\ NvOff /\ GetOff /\ CacheOff /\ HelmOff /\ InitOff

SpecCopy == CopyStart /\ [][CopyNext]_allVars

\* C19: after copyDir returned nil, every file and directory of src has an
\* entry of the same kind at the same path of dst, with the same content and
\* the same permission bits.
C19_CopyPreserves ==
    (cpc = "done" /\ cresult = "nil") =>
        \A p \in CopyPaths \ {<<>>} :
            srcTree[p].kind # "none" => dstTree[p] = srcTree[p]

----------------------------------------------------------------------------
\* validateComponent (vendor.go lines 313-459)

ComponentName == "certmgr"

\* the fields a schema can declare, each name split at its dots
\* (strings.Split(path, "."), line 436)
FieldNames == {<<"ip">>, <<"cloudflare">>, <<"cloudflare", "apiToken">>}

\* type and format a schema of the model gives to a field
TypeOf(f) == IF f = <<"cloudflare">> THEN "object" ELSE "string"
FormatOf(f) == IF f = <<"ip">> THEN "ipv4" ELSE ""

\* config.ValueSchema
ValueSchema(d, r, t, fm) == [declared |-> d, required |-> r, type |-> t, format |-> fm]

Schemas ==
    {sc \in [FieldNames -> UNION {{ValueSchema(FALSE, FALSE, "", ""),
                                   ValueSchema(TRUE, FALSE, TypeOf(f), FormatOf(f)),
                                   ValueSchema(TRUE, TRUE, TypeOf(f), FormatOf(f))} :
                                  f \in FieldNames}] :
        \A f \in FieldNames : sc[f].declared => sc[f].type = TypeOf(f) /\ sc[f].format = FormatOf(f)}

\* a part of a string between two dots: what strconv.Atoi makes of it
Part(ok, n) == [numeric |-> ok, num |-> n]

\* a value of the map: its dynamic type and, for a string, its parts, its
\* length and whether it contains "@"
Value(t, ps, n, a) == [t |-> t, parts |-> ps, len |-> n, at |-> a]

NoValue == Value("absent", <<>>, 0, FALSE)

\* "10.0.0.1", "10.0.0.256", "10.0.1" and "secret"
GoodIP == Value("string", <<Part(TRUE, 10), Part(TRUE, 0), Part(TRUE, 0), Part(TRUE, 1)>>, 8, FALSE)
BigIP == Value("string", <<Part(TRUE, 10), Part(TRUE, 0), Part(TRUE, 0), Part(TRUE, 256)>>, 10, FALSE)
ShortIP == Value("string", <<Part(TRUE, 10), Part(TRUE, 0), Part(TRUE, 1)>>, 6, FALSE)
Secret == Value("string", <<Part(FALSE, 0)>>, 6, FALSE)

Number == Value("number", <<>>, 0, FALSE)
Object == Value("object", <<>>, 0, FALSE)

\* the values maps the model follows: the value at each path, NoValue where
\* the key is missing; only an object has keys below it
ValueMaps ==
    {m \in [FieldNames -> {NoValue, GoodIP, BigIP, ShortIP, Secret, Number, Object}] :
        /\ m[<<"cloudflare">>] \in {NoValue, Secret, Object}
        /\ m[<<"cloudflare", "apiToken">>] \in {NoValue, Secret, Number}
        /\ m[<<"cloudflare", "apiToken">>] # NoValue => m[<<"cloudflare">>] = Object
        /\ m[<<"ip">>] # Object}

\* getNestedValue (lines 434-459): walk the parts of the path from part i on
RECURSIVE getNestedValue(_, _, _)
getNestedValue(m, path, i) ==
    IF m[SubSeq(path, 1, i)] = NoValue THEN [exists |-> FALSE, value |-> NoValue]
    ELSE IF i = Len(path) THEN [exists |-> TRUE, value |-> m[path]]
    ELSE IF m[SubSeq(path, 1, i)].t # "object" THEN [exists |-> FALSE, value |-> NoValue]
    ELSE getNestedValue(m, path, i + 1)

\* isValidIPv4 (lines 410-422)
isValidIPv4(v) ==
    /\ Len(v.parts) = 4
    /\ \A i \in DOMAIN v.parts :
          v.parts[i].numeric /\ v.parts[i].num >= 0 /\ v.parts[i].num <= 255

\* isValidHostname (lines 424-427)
isValidHostname(v) == v.len > 0 /\ v.len <= 253

\* isValidEmail (lines 429-432)
isValidEmail(v) == v.at /\ v.len > 3

\* fieldPath (line 324): <component>.values.<field>, split at its dots
FieldPathOf(c, f) == <<c, "values">> \o f

FieldPath(f) == FieldPathOf(ComponentName, f)

\* an entry of the errors: the kind of message, the field path in it, and
\* whether it carries the schema's description and example (lines 331-333:
\* only the "Required field missing" message does)
Error(k, fieldPath) == [kind |-> k, path |-> fieldPath, help |-> k = "missing"]

\* validateFieldValue (lines 351-406)
validateFieldValue(fieldPath, v, sc) ==
    IF sc.type = "string"
    THEN IF v.t # "string" THEN <<Error("type", fieldPath)>>
         ELSE IF \/ sc.format = "ipv4" /\ ~isValidIPv4(v)
                 \/ sc.format = "hostname" /\ ~isValidHostname(v)
                 \/ sc.format = "email" /\ ~isValidEmail(v)
         THEN <<Error("format", fieldPath)>>
         ELSE <<>>
    ELSE IF sc.type \in {"boolean", "number", "object"} /\ v.t # sc.type
    THEN <<Error("type", fieldPath)>>
    ELSE <<>>

\* the body of the loop over schema.Values (lines 323-345) for field f of
\* component c with values m and schema sc
LoopBody(c, m, sc, f) ==
    IF sc[f].required /\ ~getNestedValue(m, f, 1).exists
    THEN <<Error("missing", FieldPathOf(c, f))>>
    ELSE IF ~getNestedValue(m, f, 1).exists THEN <<>>
    ELSE validateFieldValue(FieldPathOf(c, f), getNestedValue(m, f, 1).value, sc[f])

FieldErrors_noRequiredCheck(f) ==
    IF ~getNestedValue(values, f, 1).exists THEN <<>>
    ELSE validateFieldValue(FieldPath(f), getNestedValue(values, f, 1).value, schema[f])

\* the body of the loop for the component and the field at hand
FieldErrors(f) == LoopBody(ComponentName, values, schema, f)

ValFrame == <<vars, genVars, copyVars, siteVars, ipVars, nvVars, getVars, cacheVars, helmVars, initVars>>

ValInit ==
    /\ vpc = "ready"
    /\ schema \in Schemas
    /\ values \in ValueMaps
    /\ fieldsLeft = {}
    /\ errors = <<>>
    /\ removed = NoField

\* validateComponent is called (lines 314-320)
validateComponent ==
    /\ vpc = "ready"
    /\ vpc' = "loop"
    /\ fieldsLeft' = {f \in FieldNames : schema[f].declared}
    /\ errors' = <<>>
    /\ UNCHANGED <<schema, values, removed, ValFrame>>

\* one iteration of the range over schema.Values, in any order
ValidateField ==
    /\ vpc = "loop"
    /\ \E f \in fieldsLeft :
          /\ errors' = errors \o FieldErrors(f)
          /\ fieldsLeft' = fieldsLeft \ {f}
    /\ UNCHANGED <<vpc, schema, values, removed, ValFrame>>

\* return errors (line 347)
validateReturn ==
    /\ vpc = "loop"
    /\ fieldsLeft = {}
    /\ vpc' = "returned"
    /\ UNCHANGED <<schema, values, fieldsLeft, errors, removed, ValFrame>>

IsPrefix(p, q) == Len(p) <= Len(q) /\ SubSeq(q, 1, Len(p)) = p

\* the caller deletes the key of one required field from a map that was
\* validated without an error, and validates again
RemoveRequired ==
    /\ vpc = "returned"
    /\ removed = NoField
    /\ errors = <<>>
    /\ \E f \in FieldNames :
          /\ schema[f].declared
          /\ schema[f].required
          /\ values' = [p \in FieldNames |-> IF IsPrefix(f, p) THEN NoValue ELSE values[p]]
          /\ removed' = f
    /\ vpc' = "ready"
    /\ UNCHANGED <<schema, fieldsLeft, errors, ValFrame>>

ValNext ==
    \/ validateComponent
    \/ ValidateField
    \/ validateReturn
    \/ RemoveRequired

ValStart == ValInit /\ PullOff /\ GenOff /\ CopyOff /\ SiteOff /\ IpOff /\ NvOff /\ GetOff /\ CacheOff /\ HelmOff /\ InitOff

SpecValidate == ValStart /\ [][ValNext]_allVars

\* every declared field that is required is in the map, and every declared
\* field that is in the map has the declared type and format
Satisfies ==
    \A f \in FieldNames :
        schema[f].declared =>
            /\ schema[f].required => getNestedValue(values, f, 1).exists
            /\ getNestedValue(values, f, 1).exists =>
                  /\ values[f].t = schema[f].type
                  /\ schema[f].format = "ipv4" => values[f] = GoodIP

\* the required fields of the schema at or below the removed path
Gone == {f \in FieldNames : schema[f].declared /\ schema[f].required /\ IsPrefix(removed, f)}

\* C20 as stated: a map that satisfies the schema gives no error, and after
\* one required field was removed from such a map validateComponent returns
\* exactly one error, which names <component>.values.<removed field>.
C20_RoundTrip ==
    /\ (vpc = "returned" /\ removed = NoField /\ Satisfies) => errors = <<>>
    /\ (vpc = "returned" /\ removed # NoField) =>
          /\ Len(errors) = 1
          /\ errors[1] = Error("missing", FieldPath(removed))

\* C20 amended: a map that satisfies the schema gives no error; after one
\* required field was removed from such a map validateComponent returns one
\* "required field missing" error for each required field at or below the
\* removed path and no other error, so exactly one error, naming the
\* removed field, when the schema has no other required field below it.
C20_RoundTripAmended ==
    /\ (vpc = "returned" /\ removed = NoField /\ Satisfies) => errors = <<>>
    /\ (vpc = "returned" /\ removed # NoField) =>
          /\ Len(errors) = Cardinality(Gone)
          /\ {errors[i] : i \in DOMAIN errors} = {Error("missing", FieldPath(f)) : f \in Gone}
          /\ Gone = {removed} => errors = <<Error("missing", FieldPath(removed))>>

C20_Witness ==
    /\ vpc = "returned"
    /\ removed = <<"cloudflare", "apiToken">>
    /\ schema[<<"cloudflare">>].required
    /\ schema[<<"ip">>].required
    /\ errors = <<Error("missing", FieldPath(removed))>>

----------------------------------------------------------------------------
\* validateSiteAgainstSchemas (vendor.go lines 267-311)

\* componentName of the schemas found: the catalog's components and one more
SchemaNames == Comps \cup {"other"}

\* no schema.yaml with this componentName
NoSchema == [f \in FieldNames |-> ValueSchema(FALSE, FALSE, "", "")]

\* the schemas the model follows: ip is required, cloudflare and
\* cloudflare.apiToken are both undeclared, both optional or both required
SiteSchemas ==
    {sc \in Schemas :
        /\ sc[<<"ip">>].required
        /\ sc[<<"cloudflare">>] = [sc[<<"cloudflare", "apiToken">>] EXCEPT !.type = "object"]}

SiteValueMaps ==
    {m \in ValueMaps :
        /\ m[<<"ip">>] \in {GoodIP, BigIP}
        /\ m[<<"cloudflare">>] # Secret
        /\ m[<<"cloudflare", "apiToken">>] # Secret}

\* the orders in which the range over schema.Values can visit the fields
FieldOrders == {o \in [1..3 -> FieldNames] : \A f \in FieldNames : \E i \in 1..3 : o[i] = f}

\* validateComponent (lines 314-348) for component c, visiting the fields in
\* order o
ComponentErrors(c, o) ==
    LET E(i) == IF schemas[c][o[i]].declared
                THEN LoopBody(c, scatalog[c].values, schemas[c], o[i])
                ELSE <<>>
    IN  E(1) \o E(2) \o E(3)

SiteFrame == <<vars, genVars, copyVars, valVars, ipVars, nvVars, getVars, cacheVars, helmVars, initVars>>

SiteInit ==
    /\ spc = "idle"
    /\ scatalog \in [Comps -> [enabled : BOOLEAN, values : SiteValueMaps]]
    /\ schemas \in [SchemaNames -> SiteSchemas \cup {NoSchema}]
    /\ sleft = {}
    /\ allErrors = <<>>
    /\ validated = {}
    /\ sresult = "none"

SReturn(r) ==
    /\ spc' = "done"
    /\ sresult' = r

\* discoverComponentSchemas and the check for no schema at all (lines
\* 269-278); reading or parsing a schema.yaml can fail
validateSiteAgainstSchemas ==
    /\ spc = "idle"
    /\ \E ok \in BOOLEAN :
          IF \A n \in SchemaNames : schemas[n] = NoSchema
          THEN /\ ok
               /\ SReturn("nil")
               /\ UNCHANGED sleft
          ELSE IF ok
          THEN /\ spc' = "loop"
               /\ sleft' = Comps
               /\ UNCHANGED sresult
          ELSE /\ SReturn("err")
               /\ UNCHANGED sleft
    /\ UNCHANGED <<scatalog, schemas, allErrors, validated, SiteFrame>>

SiteLoop_noEnabledCheck ==
    /\ spc = "loop"
    /\ \E c \in sleft :
          /\ sleft' = sleft \ {c}
          /\ IF schemas[c] = NoSchema
             THEN UNCHANGED <<allErrors, validated>>
             ELSE /\ \E o \in FieldOrders : allErrors' = allErrors \o ComponentErrors(c, o)
                  /\ validated' = validated \cup {c}
    /\ UNCHANGED <<spc, scatalog, schemas, sresult, SiteFrame>>

\* one iteration of the range over the catalog (lines 285-303), in any order
SiteLoop ==
    /\ spc = "loop"
    /\ \E c \in sleft :
          /\ sleft' = sleft \ {c}
          /\ IF ~scatalog[c].enabled \/ schemas[c] = NoSchema
             THEN UNCHANGED <<allErrors, validated>>
             ELSE /\ \E o \in FieldOrders : allErrors' = allErrors \o ComponentErrors(c, o)
                  /\ validated' = validated \cup {c}
    /\ UNCHANGED <<spc, scatalog, schemas, sresult, SiteFrame>>

\* the aggregate error, or nil (lines 305-310)
siteReturn ==
    /\ spc = "loop"
    /\ sleft = {}
    /\ SReturn(IF Len(allErrors) > 0 THEN "err" ELSE "nil")
    /\ UNCHANGED <<scatalog, schemas, sleft, allErrors, validated, SiteFrame>>

SiteNext ==
    \/ validateSiteAgainstSchemas
    \/ SiteLoop
    \/ siteReturn

SiteStart == SiteInit /\ PullOff /\ GenOff /\ CopyOff /\ ValOff /\ IpOff /\ NvOff /\ GetOff /\ CacheOff /\ HelmOff /\ InitOff

SpecSite == SiteStart /\ [][SiteNext]_allVars

\* the components that are enabled and have a schema under their key
InScope == {c \in Comps : scatalog[c].enabled /\ schemas[c] # NoSchema}

\* the range over the catalog has ended
LoopDone == spc = "done" /\ sleft = {} /\ (sresult = "nil" \/ allErrors # <<>>)
                         /\ \E n \in SchemaNames : schemas[n] # NoSchema

\* C21: validateComponent is called for a component only if it is enabled
\* and has a schema under its catalog key, and by the end of the loop for
\* every such component; every error names a field of such a component;
\* and with no schema at all the pass returns nil without validating.
C21_ValidationScope ==
    /\ validated \subseteq InScope
    /\ LoopDone => validated = InScope
    /\ \A i \in DOMAIN allErrors : allErrors[i].path[1] \in InScope
    /\ (spc = "done" /\ \A n \in SchemaNames : schemas[n] = NoSchema) =>
          (sresult = "nil" /\ validated = {} /\ allErrors = <<>>)

C21_Witness ==
    /\ LoopDone
    /\ sresult = "err"
    /\ ~scatalog["pihole"].enabled
    /\ schemas["pihole"] # NoSchema
    /\ scatalog["pihole"].values[<<"ip">>] = BigIP
    /\ validated = {"certmgr"}

\* field f of component c fails its schema
Failing(c, f) ==
    LET m == scatalog[c].values
        present == m[f] # NoValue
    IN  /\ c \in InScope
        /\ schemas[c][f].declared
        /\ \/ schemas[c][f].required /\ ~present
           \/ present /\ m[f].t # schemas[c][f].type
           \/ present /\ schemas[c][f].format = "ipv4" /\ m[f] # GoodIP

\* C22: the loop does not stop at a violation: when it has ended the errors
\* hold exactly one entry for every failing field of every validated
\* component, the pass returns an error exactly if there is one, and every
\* entry gives the field path with the schema's description and example.
C22_ErrorAccumulation ==
    LoopDone =>
        /\ {allErrors[i].path : i \in DOMAIN allErrors}
              = {FieldPathOf(c, f) : <<c, f>> \in {x \in Comps \X FieldNames : Failing(x[1], x[2])}}
        /\ Len(allErrors) = Cardinality({x \in Comps \X FieldNames : Failing(x[1], x[2])})
        /\ sresult = "err" <=> allErrors # <<>>
        /\ \A i \in DOMAIN allErrors : allErrors[i].help

----------------------------------------------------------------------------
\* isValidIPv4 (vendor.go lines 410-422) on strings of characters

MaxParts == 5

\* the pieces strings are put together from: "", "07", "255", "256", "1a",
\* "+1" and "-1"
Pieces ==
    {<<>>, <<"0", "7">>, <<"2", "5", "5">>, <<"2", "5", "6">>, <<"1", "a">>,
     <<"+", "1">>, <<"-", "1">>}

Digits == {"0", "1", "2", "3", "4", "5", "6", "7", "8", "9"}

DigitVal(ch) ==
    CASE ch = "0" -> 0 [] ch = "1" -> 1 [] ch = "2" -> 2 [] ch = "3" -> 3
      [] ch = "4" -> 4 [] ch = "5" -> 5 [] ch = "6" -> 6 [] ch = "7" -> 7
      [] ch = "8" -> 8 [] ch = "9" -> 9

\* the pieces joined with "."
RECURSIVE JoinDots(_)
JoinDots(ps) ==
    IF Len(ps) = 1 THEN ps[1]
    ELSE ps[1] \o <<".">> \o JoinDots(Tail(ps))

\* strings.Split(s, "."): the parts of s between the dots, read from
\* position i on with part cur begun
RECURSIVE Split(_, _, _)
Split(s, i, acc) ==
    IF i > Len(s) THEN <<acc>>
    ELSE IF s[i] = "." THEN <<acc>> \o Split(s, i + 1, <<>>)
    ELSE Split(s, i + 1, Append(acc, s[i]))

\* the value of a run of decimal digits
RECURSIVE DecimalValue(_)
DecimalValue(ds) ==
    IF ds = <<>> THEN 0
    ELSE 10 * DecimalValue(SubSeq(ds, 1, Len(ds) - 1)) + DigitVal(ds[Len(ds)])

\* strconv.Atoi: an optional sign, then one or more decimal digits
Atoi(part) ==
    LET signed == part # <<>> /\ part[1] \in {"+", "-"}
        ds == IF signed THEN Tail(part) ELSE part
    IN  IF ds = <<>> \/ \E i \in DOMAIN ds : ds[i] \notin Digits
        THEN [err |-> TRUE, num |-> 0]
        ELSE [err |-> FALSE,
              num |-> IF signed /\ part[1] = "-" THEN 0 - DecimalValue(ds) ELSE DecimalValue(ds)]

isValidIPv4Chars_noRangeCheck(s) ==
    LET parts == Split(s, 1, <<>>)
    IN  /\ Len(parts) = 4
        /\ \A i \in DOMAIN parts : ~Atoi(parts[i]).err

\* isValidIPv4 (lines 410-422)
isValidIPv4Chars(s) ==
    LET parts == Split(s, 1, <<>>)
    IN  /\ Len(parts) = 4
        /\ \A i \in DOMAIN parts :
              ~(Atoi(parts[i]).err \/ Atoi(parts[i]).num < 0 \/ Atoi(parts[i]).num > 255)

IpFrame == <<vars, genVars, copyVars, valVars, siteVars, nvVars, getVars, cacheVars, helmVars, initVars>>

IpInit ==
    /\ ipc = "call"
    /\ ip \in {JoinDots(ps) : ps \in UNION {[1..n -> Pieces] : n \in 1..MaxParts}}
    /\ ipOK = FALSE

IsValidIPv4 ==
    /\ ipc = "call"
    /\ ipc' = "done"
    /\ ipOK' = isValidIPv4Chars(ip)
    /\ UNCHANGED <<ip, IpFrame>>

IpNext == IsValidIPv4

IpStart == IpInit /\ PullOff /\ GenOff /\ CopyOff /\ ValOff /\ SiteOff /\ NvOff /\ GetOff /\ CacheOff /\ HelmOff /\ InitOff

SpecIp == IpStart /\ [][IpNext]_allVars

\* the decimal numeral of n, for n in 0..255
Numeral(n) ==
    LET d(k) == CHOOSE ch \in Digits : DigitVal(ch) = k
    IN  IF n < 10 THEN <<d(n)>>
        ELSE IF n < 100 THEN <<d(n \div 10), d(n % 10)>>
        ELSE <<d(n \div 100), d((n \div 10) % 10), d(n % 10)>>

\* p is n written with any number of leading zeros
WritesNumber(p, n) ==
    \E z \in 0..Len(p) :
        /\ \A i \in 1..z : p[i] = "0"
        /\ SubSeq(p, z + 1, Len(p)) = Numeral(n) \/ (n = 0 /\ z = Len(p) /\ z > 0)

\* p is an integer between 0 and 255: digits, after an optional sign
IntegerInRange(p) ==
    \/ \E n \in 0..255 : WritesNumber(p, n)
    \/ p # <<>> /\ p[1] = "+" /\ \E n \in 0..255 : WritesNumber(Tail(p), n)
    \/ p # <<>> /\ p[1] = "-" /\ WritesNumber(Tail(p), 0)

\* s is four parts separated by three dots, each an integer in range
FourIntegers(s) ==
    \E i, j, k \in DOMAIN s :
        /\ s[i] = "." /\ s[j] = "." /\ s[k] = "."
        /\ i < j /\ j < k
        /\ \A x \in DOMAIN s : s[x] = "." => x \in {i, j, k}
        /\ IntegerInRange(SubSeq(s, 1, i - 1))
        /\ IntegerInRange(SubSeq(s, i + 1, j - 1))
        /\ IntegerInRange(SubSeq(s, j + 1, k - 1))
        /\ IntegerInRange(SubSeq(s, k + 1, Len(s)))

\* C23: isValidIPv4(s) is true exactly if s is four dot-separated parts that
\* are each an integer between 0 and 255; fewer or more parts, an empty
\* part, a non-numeric part or a part out of range is rejected.
C23_IPv4Format == ipc = "done" => (ipOK <=> FourIntegers(ip))

C23_Witness ==
    /\ ipc = "done"
    /\ ipOK
    /\ ip = <<"0", "7", ".", "2", "5", "5", ".", "0", "7", ".", "2", "5", "5">>

C23_WitnessRejected ==
    /\ ipc = "done"
    /\ ~ipOK
    /\ ip = <<"0", "7", ".", "2", "5", "5", ".", "0", "7", ".", "2", "5", "6">>

----------------------------------------------------------------------------
\* getNestedValue (vendor.go lines 434-459) on nested maps

MaxPathLen == 3

\* the keys, as characters: "a" and "b"
Keys == {<<"a">>, <<"b">>}

\* a map[string]interface{} is the set of its entries; sub is the nested map
\* of an entry of type "map" and empty otherwise
Entry(k, t, sub) == [key |-> k, t |-> t, sub |-> sub]

\* the maps whose values are strings, nil or one of the maps subs: every key
\* is absent or holds one such value
MapsOver(subs) ==
    LET options == {[t |-> t, sub |-> {}] : t \in {"absent", "string", "nil"}}
                       \cup {[t |-> "map", sub |-> s] : s \in subs}
    IN  {{Entry(k, f[k].t, f[k].sub) : k \in {x \in Keys : f[x].t # "absent"}} :
            f \in [Keys -> options]}

\* the values maps the model follows, nested up to three deep
NestedMaps ==
    MapsOver(MapsOver({{}}))
        \cup {{Entry(<<"a">>, "map", m)} : m \in MapsOver(MapsOver({{}}))}

\* the interface{} value of an entry
ValueOf(e) == [t |-> e.t, sub |-> e.sub]

Nil == [t |-> "nil", sub |-> {}]

getNestedValueIn_firstPart(current, parts, i) ==
    IF \A e \in current : e.key # parts[i]
    THEN [value |-> Nil, exists |-> FALSE]
    ELSE [value |-> ValueOf(CHOOSE e \in current : e.key = parts[i]), exists |-> TRUE]

\* the loop of getNestedValue (lines 439-456) from part i on
RECURSIVE getNestedValueIn(_, _, _)
getNestedValueIn(current, parts, i) ==
    IF i > Len(parts) THEN [value |-> Nil, exists |-> FALSE]
    ELSE IF \A e \in current : e.key # parts[i]
    THEN [value |-> Nil, exists |-> FALSE]
    ELSE LET val == CHOOSE e \in current : e.key = parts[i]
         IN  IF i = Len(parts) THEN [value |-> ValueOf(val), exists |-> TRUE]
             ELSE IF val.t # "map" THEN [value |-> Nil, exists |-> FALSE]
             ELSE getNestedValueIn(val.sub, parts, i + 1)

NvFrame == <<vars, genVars, copyVars, valVars, siteVars, ipVars, getVars, cacheVars, helmVars, initVars>>

NvInit ==
    /\ nvc = "call"
    /\ nvMap \in NestedMaps
    /\ nvOrig = nvMap
    /\ nvPath \in {JoinDots(ps) : ps \in UNION {[1..n -> Keys \cup {<<>>}] : n \in 1..MaxPathLen}}
    /\ nvRes = [value |-> Nil, exists |-> FALSE]

\* getNestedValue (lines 434-459): the path is split at the dots
GetNestedValue ==
    /\ nvc = "call"
    /\ nvc' = "done"
    /\ nvRes' = getNestedValueIn(nvMap, Split(nvPath, 1, <<>>), 1)
    /\ UNCHANGED <<nvMap, nvOrig, nvPath, NvFrame>>

NvNext == GetNestedValue

NvStart == NvInit /\ PullOff /\ GenOff /\ CopyOff /\ ValOff /\ SiteOff /\ IpOff /\ GetOff /\ CacheOff /\ HelmOff /\ InitOff

SpecNv == NvStart /\ [][NvNext]_allVars

\* the maps that the keys ps lead to from m, each key resolving to a nested
\* map: one map, or none
RECURSIVE Reach(_, _)
Reach(m, ps) ==
    IF ps = <<>> THEN {m}
    ELSE {e.sub : e \in {x \in UNION Reach(m, SubSeq(ps, 1, Len(ps) - 1)) :
                            x.key = ps[Len(ps)] /\ x.t = "map"}}

\* the entries the whole path names: one, or none
Named(m, ps) ==
    {e \in UNION Reach(m, SubSeq(ps, 1, Len(ps) - 1)) : e.key = ps[Len(ps)]}

\* C24: getNestedValue returns (v, true) exactly when all but the last part
\* of the path resolve to nested maps and the last map holds the last part
\* as a key with value v; otherwise it returns (nil, false); and the values
\* map is as it was.
C24_NestedLookup ==
    nvc = "done" =>
        LET named == Named(nvOrig, Split(nvPath, 1, <<>>))
        IN  /\ nvRes.exists <=> named # {}
            /\ nvRes.exists => \E e \in named : nvRes.value = ValueOf(e)
            /\ ~nvRes.exists => nvRes.value = Nil
            /\ nvMap = nvOrig

C24_Witness ==
    /\ nvc = "done"
    /\ nvPath = <<"a", ".", "b", ".", "a">>
    /\ nvRes = [value |-> [t |-> "string", sub |-> {}], exists |-> TRUE]

C24_WitnessNotMap ==
    /\ nvc = "done"
    /\ nvPath = <<"a", ".", "b">>
    /\ Entry(<<"a">>, "string", {}) \in nvMap
    /\ ~nvRes.exists

----------------------------------------------------------------------------
\* 'klabctl get defaults' (get.go lines 74-89)

GetFrame == <<genVars, copyVars, valVars, siteVars, ipVars, nvVars, cacheVars, helmVars, initVars>>

\* the default --stack-ref
GetInit ==
    /\ ref = "main"
    /\ getpc = "idle"
    /\ getDisk0 = Missing
    /\ printed = FALSE
    /\ getWrote = {}
    /\ getResult = "none"

\* getDefaults is called (line 74)
getDefaults ==
    /\ getpc = "idle"
    /\ getpc' = "ensure"
    /\ getDisk0' = disk
    /\ UNCHANGED <<printed, getWrote, getResult, vars, GetFrame>>

\* EnsureStackAvailable(stackSource, stackVersion, false) (line 76)
getEnsure ==
    /\ getpc = "ensure"
    /\ \/ \E s \in Sources : EnsureStackAvailable(s, FALSE)
       \/ createHiddenKlabctlDir
       \/ ForceRemove
       \/ StatCache
       \/ pullStack
       \/ Clone
       \/ RemoveAndRecurse
       \/ getCachedVersion
       \/ Validate
       \/ RepairReset
       \/ RepairClean
       \/ Fetch
       \/ CheckoutRef
       \/ PullFfOnly

\* the error check after EnsureStackAvailable (lines 76-78)
getEnsured ==
    /\ getpc = "ensure"
    /\ pc = "done"
    /\ IF result = "nil"
       THEN /\ getpc' = "generate"
            /\ UNCHANGED getResult
       ELSE /\ getpc' = "done"
            /\ getResult' = "err"
    /\ UNCHANGED <<getDisk0, printed, getWrote, vars, GetFrame>>

\* generateSiteYaml with an empty output path returns the YAML, which is
\* printed (lines 81-88); loading the stack's defaults can fail
generateSiteYaml ==
    /\ getpc = "generate"
    /\ getpc' = "done"
    /\ \E ok \in BOOLEAN :
          /\ printed' = ok
          /\ getResult' = IF ok THEN "nil" ELSE "err"
    /\ UNCHANGED <<getDisk0, getWrote, vars, GetFrame>>

GetNext ==
    \/ getDefaults
    \/ getEnsure
    \/ getEnsured
    \/ generateSiteYaml

GetStart == Init /\ GetInit /\ GenOff /\ CopyOff /\ ValOff /\ SiteOff /\ IpOff /\ NvOff /\ CacheOff /\ HelmOff /\ InitOff

SpecGet == GetStart /\ [][GetNext]_allVars

\* C25: with no cache for the ref when 'get defaults' is called, the command
\* does not clone or otherwise create it; it writes no file itself; and the
\* YAML is printed only if the stack step succeeded.
C25_GetDefaultsOnlyPrints ==
    /\ (getpc # "idle" /\ ~getDisk0.exists) => ~disk.exists
    /\ getWrote = {}
    /\ printed => (result = "nil" /\ getResult = "nil")

----------------------------------------------------------------------------
\* EnsureStackAvailable (pull.go lines 240-300) with the cache directory as
\* a path: filepath.Join(stackCacheDirRoot, ref)

\* stackCacheDirRoot below .klabctl (pull.go line 17)
CacheRoot == <<"cache", "stack">>

\* the refs of the calls: "v1", "feature", "feature/x", "feature/../v1", ".."
CacheRefs ==
    {<<"v1">>, <<"feature">>, <<"feature", "x">>, <<"feature", "..", "v1">>, <<"..">>}

\* filepath.Clean of the segments segs appended to acc: ".." drops the
\* segment before it
RECURSIVE CleanOnto(_, _)
CleanOnto(acc, segs) ==
    IF segs = <<>> THEN acc
    ELSE IF Head(segs) = ".." THEN CleanOnto(Parent(acc), Tail(segs))
    ELSE CleanOnto(Append(acc, Head(segs)), Tail(segs))

\* filepath.Join(stackCacheDirRoot, ref) (line 246)
StackCacheDir(r) == CleanOnto(CacheRoot, r)

\* the paths below .klabctl the model follows: the cache directories and
\* the directories above them
CachePaths ==
    UNION {{SubSeq(StackCacheDir(r), 1, n) : n \in 1..Len(StackCacheDir(r))} : r \in CacheRefs}

NoEntry == [kind |-> "absent", of |-> <<>>]
DirEntry == [kind |-> "dir", of |-> <<>>]

\* a clone of ref r
RepoEntry(r) == [kind |-> "repo", of |-> r]

\* os.RemoveAll(p)
RemoveAll(t, p) == [q \in CachePaths |-> IF IsPrefix(p, q) THEN NoEntry ELSE t[q]]

\* os.MkdirAll(p, 0755)
MkdirAllIn(t, p) ==
    [q \in CachePaths |-> IF IsPrefix(q, p) /\ t[q].kind = "absent" THEN DirEntry ELSE t[q]]

\* the cache directory of ref r and everything in it
CacheOf(t, r) == [q \in {x \in CachePaths : IsPrefix(StackCacheDir(r), x)} |-> t[q]]

\* the refs other than the call's whose cache directory differs between t
\* and u
Changed(t, u) == {r \in CacheRefs \ {callRef} : CacheOf(t, r) # CacheOf(u, r)}

CacheFrame == <<vars, genVars, copyVars, valVars, siteVars, ipVars, nvVars, getVars, helmVars, initVars>>

CacheInit ==
    /\ cacheTree = [q \in CachePaths |-> NoEntry]
    /\ callRef = <<>>
    /\ callForce = FALSE
    /\ cachePc = "idle"
    /\ othersChanged = {}

\* EnsureStackAvailable(source, ref, force) is called (line 240)
CacheCall ==
    /\ cachePc = "idle"
    /\ \E r \in CacheRefs, f \in BOOLEAN :
          /\ callRef' = r
          /\ callForce' = f
    /\ cachePc' = "force"
    /\ othersChanged' = {}
    /\ UNCHANGED <<cacheTree, CacheFrame>>

\* the force flag (lines 249-255)
CacheForce ==
    /\ cachePc = "force"
    /\ cachePc' = "stat"
    /\ cacheTree' = IF callForce THEN RemoveAll(cacheTree, StackCacheDir(callRef)) ELSE cacheTree
    /\ othersChanged' = othersChanged \cup Changed(cacheTree, cacheTree')
    /\ UNCHANGED <<callRef, callForce, CacheFrame>>

\* os.Stat and the validation of an existing directory (lines 257-330): a
\* missing directory is pulled; a directory without .git, and a clone that
\* cannot be read or repaired, is removed and pulled; a sound clone is updated
CacheStat ==
    /\ cachePc = "stat"
    /\ \E sound \in BOOLEAN :
          IF cacheTree[StackCacheDir(callRef)].kind = "absent"
          THEN /\ cachePc' = "pull"
               /\ UNCHANGED cacheTree
          ELSE IF cacheTree[StackCacheDir(callRef)].kind = "repo" /\ sound
          THEN /\ cachePc' = "update"
               /\ UNCHANGED cacheTree
          ELSE /\ cachePc' = "pull"
               /\ cacheTree' = RemoveAll(cacheTree, StackCacheDir(callRef))
    /\ othersChanged' = othersChanged \cup Changed(cacheTree, cacheTree')
    /\ UNCHANGED <<callRef, callForce, CacheFrame>>

\* pullStack (lines 208-236): without git nothing is done; a ref with a
\* ".." segment is no ref name git accepts
CachePull ==
    /\ cachePc = "pull"
    /\ cachePc' = "done"
    /\ \E git, cloned \in BOOLEAN :
          /\ cloned => git /\ \A i \in DOMAIN callRef : callRef[i] # ".."
          /\ cacheTree' =
                IF ~git THEN cacheTree
                ELSE LET made == MkdirAllIn(RemoveAll(cacheTree, StackCacheDir(callRef)),
                                            Parent(StackCacheDir(callRef)))
                     IN  IF cloned
                         THEN [made EXCEPT ![StackCacheDir(callRef)] = RepoEntry(callRef)]
                         ELSE made
    /\ othersChanged' = othersChanged \cup Changed(cacheTree, cacheTree')
    /\ UNCHANGED <<callRef, callForce, CacheFrame>>

\* updateGitRepo: git fetch, checkout and pull inside the cache directory
\* (lines 182-205)
CacheUpdate ==
    /\ cachePc = "update"
    /\ cachePc' = "done"
    /\ cacheTree' \in {cacheTree, [cacheTree EXCEPT ![StackCacheDir(callRef)] = RepoEntry(callRef)]}
    /\ othersChanged' = othersChanged \cup Changed(cacheTree, cacheTree')
    /\ UNCHANGED <<callRef, callForce, CacheFrame>>

CacheReturned ==
    /\ cachePc = "done"
    /\ cachePc' = "idle"
    /\ UNCHANGED <<cacheTree, callRef, callForce, othersChanged, CacheFrame>>

CacheNext ==
    \/ CacheCall
    \/ CacheForce
    \/ CacheStat
    \/ CachePull
    \/ CacheUpdate
    \/ CacheReturned

CacheStart ==
    CacheInit /\ PullOff /\ GenOff /\ CopyOff /\ ValOff /\ SiteOff /\ IpOff /\ NvOff /\ GetOff /\ HelmOff /\ InitOff

SpecCache == CacheStart /\ [][CacheNext]_allVars

\* C26: a call of EnsureStackAvailable for ref r never deletes, re-clones or
\* otherwise changes the cache directory of another ref, refs with "/" or
\* ".." segments included.
C26_CacheIsolation == othersChanged = {}

----------------------------------------------------------------------------
\* the render a step has made, when it has made one
LastRender == renders'[Len(renders')]

\* C27: a render that fails while reading or parsing a template leaves the
\* output file as it was, created or not; only a render that fails after
\* os.Create (template lookup or execution) leaves an empty or partly
\* written output file.
C27_RenderFailureOutput ==
    [][Len(renders') = Len(renders) + 1 =>
          LET f == Generated(LastRender.comp, LastRender.out)
          IN  /\ LastRender.outcome = "read" => fs'[f] = fs[f]
              /\ (LastRender.outcome # "ok" /\ fs'[f] # fs[f]) =>
                    (LastRender.outcome = "execute" /\ fs'[f] = Partial)
              /\ LastRender.outcome = "execute" => fs'[f] = Partial]_allVars

C27_Witness ==
    /\ gpc = "done"
    /\ gresult = "err"
    /\ renders # <<>>
    /\ renders[Len(renders)].outcome = "read"
    /\ fs[Generated(renders[Len(renders)].comp, renders[Len(renders)].out)]
          = Rendered(renders[Len(renders)].comp, renders[Len(renders)].tmpl)

----------------------------------------------------------------------------
\* generate runs with a stack cache that changes between the runs

\* one component enabled and complete, the other disabled, no infra
RegenInit ==
    /\ GenInit
    /\ site.loadable /\ site.stackSet /\ ~site.infra
    /\ EnabledComps = {"pihole"}
    /\ ~Lacking("pihole")
    /\ stack["pihole"].base
    /\ dirs = {}

\* between two runs another version of the stack is pulled into the cache:
\* templates of a component are added or removed
StackChange ==
    /\ gpc = "idle"
    /\ snap # NoSnap
    /\ \E s \in Stacks :
          /\ s # stack
          /\ \A c \in Comps : s[c].base = stack[c].base
          /\ stack' = s
    /\ UNCHANGED <<gpc, site, fs, dirs, todo, cur, tq, written, renders, gresult, runs,
                   edits, handEdited, snap, GenFrame>>

RegenNext ==
    \/ GenNext
    \/ StackChange

RegenStart ==
    RegenInit /\ PullOff /\ CopyOff /\ ValOff /\ SiteOff /\ IpOff /\ NvOff /\ GetOff /\ CacheOff /\ HelmOff /\ InitOff

SpecRegen == RegenStart /\ [][RegenNext]_allVars

\* the files that exist in generated/ of c
InGenerated(c) == {f \in Files(c) : f[2] = "generated" /\ fs[f] # Absent}

\* C28: when the second of two successful generate runs returns, whatever
\* templates the stack had in the first run, generated/ of every enabled
\* component holds exactly the files the second run rendered.
C28_NoStaleGenerated ==
    (ReturnedOK /\ snap # NoSnap /\ runs = 1) =>
        \A c \in EnabledComps : InGenerated(c) = WrittenGenerated(c)

----------------------------------------------------------------------------
\* addAdditionalValuesFile (vendor code lines 174-250)

\* a yaml node of the root mapping: its kind, its value when a scalar, its
\* items when a sequence of scalars
YamlNode(k, v, items) == [kind |-> k, value |-> v, items |-> items]

Scalar(v) == YamlNode("scalar", v, <<>>)
Sequence(items) == YamlNode("sequence", "", items)

Pair(k, v) == [key |-> k, value |-> v]

\* the values additionalValuesFiles has in the charts the model follows: a
\* list without and with "../custom/values.yaml", the empty list, null, a
\* string and a mapping
ValuesEntries ==
    {Sequence(<<>>), Sequence(<<"values.yaml">>),
     Sequence(<<"values.yaml", "../custom/values.yaml">>),
     Scalar(""), Scalar("values.yaml"), YamlNode("mapping", "", <<>>)}

\* the content of the root mapping: the chart key, and additionalValuesFiles
\* before it, after it or not at all
RootContents ==
    {<<>>, <<Pair("chart", Scalar("pihole"))>>}
        \cup {<<Pair("additionalValuesFiles", v)>> : v \in ValuesEntries}
        \cup {<<Pair("chart", Scalar("pihole")), Pair("additionalValuesFiles", v)>> :
                v \in ValuesEntries}
        \cup {<<Pair("additionalValuesFiles", v), Pair("chart", Scalar("pihole"))>> :
                v \in ValuesEntries}

\* a document: the kind of its root ("none" for an empty document), the
\* content of a root mapping, and whether the text is as yaml.Marshal writes
\* it (comments and layout of a hand-written file are lost on Marshal)
Charts ==
    {[root |-> "mapping", content |-> c, marshalled |-> m] : c \in RootContents, m \in BOOLEAN}
        \cup {[root |-> k, content |-> <<>>, marshalled |-> FALSE] : k \in {"none", "sequence"}}

\* index of the first additionalValuesFiles key, 0 when there is none
\* (lines 198-206)
AdditionalValuesIndex(c) ==
    IF \A i \in DOMAIN c : c[i].key # "additionalValuesFiles" THEN 0
    ELSE CHOOSE i \in DOMAIN c :
            /\ c[i].key = "additionalValuesFiles"
            /\ \A j \in 1..(i - 1) : c[j].key # "additionalValuesFiles"

\* yaml.Marshal and os.WriteFile of the document with root content c
Written(c) == [root |-> "mapping", content |-> c, marshalled |-> TRUE]

Outcome(r, d) == [result |-> r, doc |-> d]

\* addAdditionalValuesFile (lines 174-250): the result and the file after it
AddAdditionalValuesFile(d, path) ==
    IF d.root # "mapping" THEN Outcome("err", d)
    ELSE LET c == d.content
             i == AdditionalValuesIndex(c)
         IN  IF i = 0
             THEN Outcome("nil", Written(Append(c, Pair("additionalValuesFiles", Sequence(<<path>>)))))
             ELSE IF c[i].value.kind # "sequence" THEN Outcome("nil", Written(c))
             ELSE IF \E k \in DOMAIN c[i].value.items : c[i].value.items[k] = path
             THEN Outcome("nil", d)
             ELSE Outcome("nil",
                          Written([c EXCEPT ![i].value.items = Append(@, path)]))

HelmFrame == <<vars, genVars, copyVars, valVars, siteVars, ipVars, nvVars, getVars, cacheVars, initVars>>

HelmInit ==
    /\ chart \in Charts
    /\ valuesPath \in {"../custom/values.yaml", "values.yaml"}
    /\ afterFirst = chart
    /\ addResults = <<>>

\* one call; os.ReadFile can fail
addAdditionalValuesFile ==
    /\ Len(addResults) < 2
    /\ \E readable \in BOOLEAN :
          LET o == IF readable THEN AddAdditionalValuesFile(chart, valuesPath)
                   ELSE Outcome("err", chart)
          IN  /\ chart' = o.doc
              /\ addResults' = Append(addResults, o.result)
              /\ afterFirst' = IF addResults = <<>> THEN o.doc ELSE afterFirst
    /\ UNCHANGED <<valuesPath, HelmFrame>>

HelmNext == addAdditionalValuesFile

HelmStart ==
    HelmInit /\ PullOff /\ GenOff /\ CopyOff /\ ValOff /\ SiteOff /\ IpOff /\ NvOff /\ GetOff /\ CacheOff /\ InitOff

SpecHelm == HelmStart /\ [][HelmNext]_allVars

\* the additionalValuesFiles entries of document d that are lists
ValuesLists(d) ==
    {d.content[i].value.items : i \in {j \in DOMAIN d.content :
        /\ d.content[j].key = "additionalValuesFiles"
        /\ d.content[j].value.kind = "sequence"}}

\* how often path p is listed in the list l
Listed(l, p) == Cardinality({k \in DOMAIN l : l[k] = p})

\* C29: after a call that returned nil on a document whose root is a
\* mapping, additionalValuesFiles is a list that contains customValuesPath,
\* whatever it was before; a second call leaves the document as the first
\* one left it, and the function lists the path once.
C29_AddValuesIdempotent ==
    /\ (addResults # <<>> /\ addResults[Len(addResults)] = "nil") =>
          /\ chart.root = "mapping"
          /\ ValuesLists(chart) # {}
          /\ \A l \in ValuesLists(chart) : Listed(l, valuesPath) = 1
    /\ addResults = <<"nil", "nil">> => chart = afterFirst

----------------------------------------------------------------------------
\* 'klabctl init' (init.go lines 35-141, generate.go lines 709-760)

\* a file is absent, holds what the user wrote, holds what init writes, or
\* was left incomplete by a failed write
FileStates == {"absent", "user", "generated", "partial"}

\* the files when command cmd is called
Snapshot(cmd) ==
    [cmd |-> cmd, site |-> siteYaml, root |-> rootSiteYaml, ignore |-> gitignore,
     config |-> configYaml]

InitFrame == <<vars, genVars, copyVars, valVars, siteVars, ipVars, nvVars, getVars, cacheVars,
               helmVars>>

ProjectInit ==
    /\ initPc = "idle"
    /\ siteYaml \in {"absent", "user"}
    /\ rootSiteYaml \in {"absent", "user"}
    /\ gitignore \in {"absent", "user"}
    /\ configYaml \in {"absent", "user"}
    /\ stackEnsured = FALSE
    /\ initResult = "none"
    /\ before = [cmd |-> "", site |-> "absent", root |-> "absent", ignore |-> "absent",
                 config |-> "absent"]

IReturn(r) ==
    /\ initPc' = "done"
    /\ initResult' = r

\* initProject(clusterName) is called and makes the cluster directory
\* (lines 35-42)
initProject ==
    /\ initPc = "idle"
    /\ before' = Snapshot("init")
    /\ stackEnsured' = FALSE
    /\ \E ok \in BOOLEAN :
          IF ok THEN initPc' = "stat" /\ initResult' = "none"
          ELSE IReturn("err")
    /\ UNCHANGED <<siteYaml, rootSiteYaml, gitignore, configYaml, InitFrame>>

StatSiteYaml_noCheck ==
    /\ initPc = "stat"
    /\ initPc' = "ensure"
    /\ UNCHANGED <<siteYaml, rootSiteYaml, gitignore, configYaml, stackEnsured, initResult,
                   before, InitFrame>>

\* the check for an existing site.yaml (lines 45-48)
StatSiteYaml ==
    /\ initPc = "stat"
    /\ IF siteYaml # "absent"
       THEN IReturn("err")
       ELSE initPc' = "ensure" /\ UNCHANGED initResult
    /\ UNCHANGED <<siteYaml, rootSiteYaml, gitignore, configYaml, stackEnsured, before,
                   InitFrame>>

\* EnsureStackAvailable (lines 55-58)
EnsureStack ==
    /\ initPc = "ensure"
    /\ stackEnsured' = TRUE
    /\ \E ok \in BOOLEAN :
          IF ok THEN initPc' = "config" /\ UNCHANGED initResult
          ELSE IReturn("err")
    /\ UNCHANGED <<siteYaml, rootSiteYaml, gitignore, configYaml, before, InitFrame>>

\* createKlabctlConfig (lines 61-64, 95-117)
createKlabctlConfig ==
    /\ initPc = "config"
    /\ \E o \in {"ok", "early", "write"} :
          /\ configYaml' = IF o = "ok" THEN "generated"
                           ELSE IF o = "write" THEN "partial" ELSE configYaml
          /\ IF o = "ok" THEN initPc' = "site" /\ UNCHANGED initResult
             ELSE IReturn("err")
    /\ UNCHANGED <<siteYaml, rootSiteYaml, gitignore, stackEnsured, before, InitFrame>>

\* generateSiteYaml(siteYamlPath, ...) (lines 68-70)
writeSiteYaml ==
    /\ initPc = "site"
    /\ \E o \in {"ok", "early", "write"} :
          /\ siteYaml' = IF o = "ok" THEN "generated"
                         ELSE IF o = "write" THEN "partial" ELSE siteYaml
          /\ IF o = "ok" THEN initPc' = "gitignore" /\ UNCHANGED initResult
             ELSE IReturn("err")
    /\ UNCHANGED <<rootSiteYaml, gitignore, configYaml, stackEnsured, before, InitFrame>>

\* createGitignore (lines 75-80, 120-141); its error is only a warning
createGitignore ==
    /\ initPc = "gitignore"
    /\ IF gitignore # "absent" THEN UNCHANGED gitignore
       ELSE gitignore' \in {"generated", "partial", "absent"}
    /\ IReturn("nil")
    /\ UNCHANGED <<siteYaml, rootSiteYaml, configYaml, stackEnsured, before, InitFrame>>

\* the init of generate.go (lines 709-760): renderSiteYaml writes site.yaml
\* of the working directory unless it exists
renderSiteYaml ==
    /\ initPc = "idle"
    /\ before' = Snapshot("generate.go init")
    /\ stackEnsured' = FALSE
    /\ IF rootSiteYaml # "absent"
       THEN /\ IReturn("err")
            /\ UNCHANGED rootSiteYaml
       ELSE \E o \in {"ok", "early", "write"} :
               /\ rootSiteYaml' = IF o = "ok" THEN "generated"
                                  ELSE IF o = "write" THEN "partial" ELSE rootSiteYaml
               /\ IReturn(IF o = "ok" THEN "nil" ELSE "err")
    /\ UNCHANGED <<siteYaml, gitignore, configYaml, InitFrame>>

InitReturned ==
    /\ initPc = "done"
    /\ initPc' = "idle"
    /\ UNCHANGED <<siteYaml, rootSiteYaml, gitignore, configYaml, stackEnsured, initResult,
                   before, InitFrame>>

InitNext ==
    \/ initProject
    \/ StatSiteYaml
    \/ EnsureStack
    \/ createKlabctlConfig
    \/ writeSiteYaml
    \/ createGitignore
    \/ renderSiteYaml
    \/ InitReturned

InitStart ==
    ProjectInit /\ PullOff /\ GenOff /\ CopyOff /\ ValOff /\ SiteOff /\ IpOff /\ NvOff /\ GetOff
                /\ CacheOff /\ HelmOff

SpecInit == InitStart /\ [][InitNext]_allVars

\* C30: an init called while the cluster's site.yaml exists returns an error
\* with that site.yaml as it was, without a call of EnsureStackAvailable and
\* with .klabctl/config.yaml as it was; the same holds for site.yaml of the
\* working directory and renderSiteYaml; and a .gitignore that exists when
\* init is called is left as it was.
C30_InitKeepsExisting ==
    initPc # "idle" =>
        /\ (before.cmd = "init" /\ before.site # "absent") =>
              /\ siteYaml = before.site
              /\ configYaml = before.config
              /\ ~stackEnsured
              /\ initPc = "done" => initResult = "err"
        /\ (before.cmd = "generate.go init" /\ before.root # "absent") =>
              /\ rootSiteYaml = before.root
              /\ initPc = "done" => initResult = "err"
        /\ before.ignore # "absent" => gitignore = before.ignore

C30_Witness ==
    /\ initPc = "done"
    /\ initResult = "err"
    /\ before.cmd = "init"
    /\ before.site = "user"
    /\ siteYaml = "user"
    /\ before.config = "absent"
    /\ configYaml = "absent"
    /\ ~stackEnsured

C30_WitnessGitignore ==
    /\ initPc = "done"
    /\ initResult = "nil"
    /\ siteYaml = "generated"
    /\ before.ignore = "user"
    /\ gitignore = "user"

====
